---------------------------- MODULE Spec2Model ----------------------------
(***************************************************************************)
(* A model of kujira (src/main.c): the colour blending primitive, the      *)
(* bitmap rotation, the tile world (random walk, sort, binary search) and  *)
(* the ripple pool.                                                        *)
(*                                                                         *)
(* Conventions.                                                            *)
(*  - A packed 32-bit colour is written as the tuple of its four bytes,    *)
(*    high byte first: <<b3, b2, b1, b0>> stands for                       *)
(*    b3 << 24 | b2 << 16 | b1 << 8 | b0 (TLC's integers are 32-bit        *)
(*    signed, so 0xffffffff is not an integer of the model).               *)
(*  - A C float is the record [m, e] with value m * 2^e, m = 0 or          *)
(*    2^23 <= m < 2^24: IEEE-754 single precision, every operation         *)
(*    rounded to nearest-even (SSE arithmetic, FLT_EVAL_METHOD 0).  Only   *)
(*    non-negative floats occur in applyColor.                             *)
(*  - Each component has its own specification (SpecBlend, SpecRotate,     *)
(*    SpecMap, SpecRipple); the variables of the other components stay     *)
(*    at their idle values.                                                *)
(***************************************************************************)
EXTENDS Integers, Sequences, FiniteSets, TLC

VARIABLES
    \* applyColor: the source colour, *dest after and before the call, the
    \* ints r, g, b of the call, the number of calls made
    bSrc, bDest, bPrev, bRaw, bCount,
    \* rotateBitmap: the bitmap (the input, then each result), the bitmap and
    \* the angle of the last call, the angle of the call before it, the
    \* offsets the last call read from its source buffer and wrote to its
    \* destination buffer, the number of calls made
    rBitmap, rPrev, rTrig, rTrigPrev, rReads, rWrites, rCount,
    \* initMap: tileArray (the entries written so far, then the sorted
    \* array), where initMap stands ("walk", "sort", "generated"), its locals
    \* x, y, r2 and i
    tileArray, pcMap, wx, wy, wr2, wi,
    \* borderCollide: the coordinates and the result of the last call (-1
    \* before the first call)
    qx, qy, qres,
    \* the ripple pool: rippleArray and rippleIndex; the heap of ripple
    \* bitmaps (an allocation is named by its number: heapLive are the
    \* allocated and unreleased ones, heapFreed the released ones, heapErr
    \* the ones released twice or used after their release, nextHandle the
    \* number of the next allocation); the allocations the last
    \* animateRipple read or wrote
    rippleArray, rippleIndex, heapLive, heapFreed, heapErr, nextHandle,
    rippleTouched,
    \* observers of the pool: the number of initRipple and of animateRipple
    \* calls made, the slot the last initRipple wrote, per slot the number of
    \* animateRipple calls since it was last written; and the number of
    \* calls of each kind the run is followed for
    spawnCount, frameCount, lastSlot, rippleAge, spawnBudget, frameBudget,
    \* drawBitmap: its arguments (the bitmap, x and y, the angle, the scale);
    \* of the last call the scaled bitmap and the offsets scaleBitmap read,
    \* the bitmap the pixels were drawn from, the clipped rectangle, the
    \* offsets read from that bitmap and written to display.buffer; the
    \* display buffer after and before the call; the intermediate bitmaps
    \* allocated and not freed (an allocation is named by its number) and the
    \* number of the next allocation; the number of calls made
    sBitmap, sX, sY, sTrig, sScale, sScaled, sScaleReads, sRotated, sRect,
    sReads, sWrites, sDisplay, sDisplayPrev, sLive, sNextHandle, sCount,
    \* the camera and the renderer: cam, and cam before the last
    \* updateCamera; the number of updateCamera calls of the scroll in
    \* progress; the number of drawMap calls of the last updateCamera; the
    \* player's tile; what the old and the new view buffer hold; the pixels
    \* drawBackground last wrote to the frame buffer (at the places the
    \* model follows); the phase of the frame
    cam, camPrev, camAge, drawMapCalls, playerX, playerY, bgBufferOld,
    bgBufferNew, frameProbes, pcCam,
    \* the frame loop of main: the snapshots of the keys, running, the
    \* statement the loop is at; observers: the phases the current iteration
    \* has run, the number of iterations begun, what has been drawn into
    \* display.buffer since the background was last copied into it, what
    \* blitDisplay last presented and how often it presented, whether the
    \* last processInput spawned a ripple, for how many consecutive frames
    \* key_r has been down and how many ripples it spawned meanwhile
    newInput, oldInput, running, pcFrame, phaseLog, loopCount, displayLayers,
    presented, presentCount, spawnedNow, heldFrames, heldSpawns,
    \* the player: the fields of player that place it (tile, destination,
    \* pixel offset, acceleration, velocity), and the same before the last
    \* updatePlayer; the arrow keys that call read; the number of calls that
    \* read a pressed arrow key
    player, playerBefore, pKeys, pMoves,
    \* the drawing of the ripples: of the last animateRipple, the pixels the
    \* rings wrote into the bitmaps and the accesses to the frame buffer of
    \* the compositing (at the places the model follows)
    ringPixels, composited

blendVars == <<bSrc, bDest, bPrev, bRaw, bCount>>
rotVars == <<rBitmap, rPrev, rTrig, rTrigPrev, rReads, rWrites, rCount>>

mapVars == <<tileArray, pcMap, wx, wy, wr2, wi, qx, qy, qres>>

rippleVars ==
    <<rippleArray, rippleIndex, heapLive, heapFreed, heapErr, nextHandle,
      rippleTouched, spawnCount, frameCount, lastSlot, rippleAge,
      spawnBudget, frameBudget>>

spriteVars ==
    <<sBitmap, sX, sY, sTrig, sScale, sScaled, sScaleReads, sRotated, sRect,
      sReads, sWrites, sDisplay, sDisplayPrev, sLive, sNextHandle, sCount>>

camVars ==
    <<cam, camPrev, camAge, drawMapCalls, playerX, playerY, bgBufferOld,
      bgBufferNew, frameProbes, pcCam>>

frameVars ==
    <<newInput, oldInput, running, pcFrame, phaseLog, loopCount,
      displayLayers, presented, presentCount, spawnedNow, heldFrames,
      heldSpawns>>

playerVars == <<player, playerBefore, pKeys, pMoves>>

drawVars == <<ringPixels, composited>>

vars ==
    <<blendVars, rotVars, mapVars, rippleVars, spriteVars, camVars,
      frameVars, playerVars, drawVars>>

---------------------------------------------------------------------------
(* Arithmetic helpers *)

RECURSIVE Pow2(_)
Pow2(k) == IF k = 0 THEN 1 ELSE 2 * Pow2(k - 1)

---------------------------------------------------------------------------
(* IEEE-754 single precision, non-negative values *)

FZero == [m |-> 0, e |-> 0]

RECURSIVE FNorm(_, _)
\* the float with value m * 2^e, for 0 <= m < 2^24 (exactly representable)
FNorm(m, e) ==
    IF m = 0 THEN FZero
    ELSE IF m < 8388608 THEN FNorm(2 * m, e - 1)
    ELSE [m |-> m, e |-> e]

RECURSIVE DropBits(_, _)
\* the number of low bits to drop from n to bring it below 2^24
DropBits(n, k) == IF n < 16777216 THEN k ELSE DropBits(n \div 2, k + 1)

\* round n * 2^e (+ a non-zero tail below 2^e when sticky) to nearest, ties
\* to even; sticky is only passed with n >= 2^25
FRound(n, e, sticky) ==
    IF n < 16777216 THEN FNorm(n, e)
    ELSE LET k    == DropBits(n, 0)
             q    == n \div Pow2(k)
             r    == n % Pow2(k)
             half == Pow2(k - 1)
             up   == r > half \/ (r = half /\ (sticky \/ q % 2 = 1))
             q1   == IF up THEN q + 1 ELSE q
         IN  IF q1 = 16777216 THEN [m |-> 8388608, e |-> e + k + 1]
             ELSE [m |-> q1, e |-> e + k]

RECURSIVE LongDiv(_, _, _, _)
\* binary long division n / den: quotient bits until q >= 2^24
LongDiv(q, r, s, den) ==
    IF q >= 16777216 THEN [q |-> q, r |-> r, s |-> s]
    ELSE LongDiv(2 * q + ((2 * r) \div den), (2 * r) % den, s + 1, den)

\* (float)n / (float)den, for small non-negative integers
FDivInt(n, den) ==
    IF n = 0 THEN FZero
    ELSE LET d == LongDiv(n \div den, n % den, 0, den)
         IN  FRound(d.q, -d.s, d.r # 0)

\* 1 - a, for a float 0 <= a <= 1
FOneMinus(a) ==
    IF a.m = 0 THEN FNorm(1, 0)
    ELSE LET half == Pow2(-a.e - 1)
         IN  FRound((half - a.m) + half, a.e, FALSE)

\* f * (float)c, for an integer 0 <= c <= 255
FMulInt(f, c) ==
    LET h  == f.m \div 4096
        l  == f.m % 4096
    IN  IF h * c < 262144
        THEN FRound(h * c * 4096 + l * c, f.e, FALSE)
        ELSE FRound(h * c * 2048 + ((l * c) \div 2), f.e + 1, (l * c) % 2 = 1)

\* f + g
FAdd(f, g) ==
    IF f.m = 0 THEN g
    ELSE IF g.m = 0 THEN f
    ELSE LET big   == IF f.e >= g.e THEN f ELSE g
             small == IF f.e >= g.e THEN g ELSE f
             shift == big.e - small.e
         IN  IF shift <= 6
             THEN FRound(big.m * Pow2(shift) + small.m, small.e, FALSE)
             ELSE IF shift - 6 >= 24
             THEN FRound(big.m * 64, big.e - 6, TRUE)
             ELSE FRound(big.m * 64 + (small.m \div Pow2(shift - 6)),
                         big.e - 6,
                         small.m % Pow2(shift - 6) # 0)

\* (int)f: conversion truncates toward zero
FTrunc(f) ==
    IF f.e >= 0 THEN f.m * Pow2(f.e)
    ELSE IF -f.e > 30 THEN 0
    ELSE f.m \div Pow2(-f.e)

---------------------------------------------------------------------------
(* Bounds and inputs *)

\* calls of applyColor on one destination pixel
MaxBlends == 1
\* successive calls of rotateBitmap on one bitmap
MaxRotations == 2

\* the map: MAPWIDTH, MAPHEIGHT and MAPLENGTH are 2000 in the program; the
\* model keeps MAPLENGTH >= MAPWIDTH / 2 + 4, so that a walk can reach both
\* sides of the bounding box as it can in the program
MAPWIDTH == 4
MAPHEIGHT == 4
MAPLENGTH == 6
\* iterations of the walk's loop
MaxSteps == 7

\* the ripple pool is followed through a burst of spawns with few frames,
\* and through the whole life (27 frames) of few ripples
MaxSpawns == 7
MaxBurstFrames == 2
MaxLifeSpawns == 1
MaxLifeFrames == 30

Transparent == <<0, 0, 0, 0>>
White == <<255, 255, 255, 255>>

\* colours of the program (tile fill 0xeb9b34, tile 0x4f4f9f, ripple
\* 0x6f6fbf, black, white) and a dark one
RGBSamples ==
    { <<0, 0, 0>>, <<255, 255, 255>>, <<235, 155, 52>>, <<79, 79, 159>>,
      <<111, 111, 191>>, <<3, 6, 1>> }
SrcAlphas == {0, 1, 65, 127, 128, 153, 254, 255}
DestAlphas == {0, 128, 255}
SrcColors == { <<c[1], c[2], c[3], a>> : c \in RGBSamples, a \in SrcAlphas }
DestColors == { <<c[1], c[2], c[3], a>> : c \in RGBSamples, a \in DestAlphas }

---------------------------------------------------------------------------
(* applyColor *)

Alpha(c) == c[4]

\* the weights of destination and source exchanged
BlendChannelSwapped(alpha, d, s) ==
    LET a == FDivInt(alpha, 255)
    IN  FTrunc(FAdd(FMulInt(a, d), FMulInt(FOneMinus(a), s)))

\* int r = ((1 - a) * dest_channel) + (a * src_channel), a = alpha / 255.0f
BlendChannel(alpha, d, s) ==
    LET a == FDivInt(alpha, 255)
    IN  FTrunc(FAdd(FMulInt(FOneMinus(a), d), FMulInt(a, s)))

\* the three ints r, g, b of applyColor before they are packed
applyColorRaw(src, dest) ==
    <<BlendChannel(Alpha(src), dest[1], src[1]),
      BlendChannel(Alpha(src), dest[2], src[2]),
      BlendChannel(Alpha(src), dest[3], src[3])>>

\* the alpha byte of the destination kept
applyColorKeepAlpha(src, dest) ==
    LET raw == applyColorRaw(src, dest)
    IN  <<raw[1] % 256, raw[2] % 256, raw[3] % 256, Alpha(dest)>>

\* *dest = r << 24 | g << 16 | b << 8 | (src & 0xFF)
applyColor(src, dest) ==
    LET raw == applyColorRaw(src, dest)
    IN  <<raw[1] % 256, raw[2] % 256, raw[3] % 256, Alpha(src)>>

\* applying colours to one destination pixel
ApplyColorStep ==
    /\ bCount < MaxBlends
    /\ \E src \in SrcColors :
          /\ bSrc' = src
          /\ bPrev' = bDest
          /\ bRaw' = applyColorRaw(src, bDest)
          /\ bDest' = applyColor(src, bDest)
    /\ bCount' = bCount + 1

IdleBlend ==
    /\ bSrc = Transparent
    /\ bDest = Transparent
    /\ bPrev = Transparent
    /\ bRaw = <<0, 0, 0>>
    /\ bCount = 0

---------------------------------------------------------------------------
(* rotateBitmap *)

\* sin and cos of the angle are the fractions s / TRIG_DEN and c / TRIG_DEN
\* with c^2 + s^2 = TRIG_DEN^2: the quarter turns and the 3-4-5 angles, each
\* with its negative.  The coordinates and the interpolation are computed
\* exactly on these fractions (for sin = 0, cos = 1 the float arithmetic of
\* the code is exact as well).
TRIG_DEN == 5
Angle0 == [c |-> 5, s |-> 0]
Trigs ==
    { Angle0, [c |-> 0, s |-> 5], [c |-> 0, s |-> -5], [c |-> -5, s |-> 0],
      [c |-> 4, s |-> 3], [c |-> 4, s |-> -3],
      [c |-> 3, s |-> 4], [c |-> 3, s |-> -4],
      [c |-> -4, s |-> 3], [c |-> -4, s |-> -3] }
Negated(t) == [c |-> t.c, s |-> -t.s]

\* bitmap.data + off, read: inside the buffer the pixel; outside it the read
\* is out of bounds (InBounds is what the safety property is about)
InBounds(bitmap, off) == off >= 0 /\ off < bitmap.width * bitmap.height
Peek(bitmap, off) ==
    IF InBounds(bitmap, off) THEN bitmap.data[off + 1] ELSE Transparent

\* rx * TRIG_DEN and ry * TRIG_DEN; cx = w / 2 and cy = h / 2 are integer
\* divisions; the y term of rx uses cx
RxNum(w, h, x, y, t) ==
    (x - (w \div 2)) * t.c - (y - (w \div 2)) * t.s + (w \div 2) * TRIG_DEN
RyNum(w, h, x, y, t) ==
    (x - (w \div 2)) * t.s + (y - (h \div 2)) * t.c + (h \div 2) * TRIG_DEN

\* if (rx < 0 || ry < 0 || rx >= w - 1 || ry >= h - 1) continue;
SkippedNoLower(w, h, rxn, ryn) ==
    rxn >= (w - 1) * TRIG_DEN \/ ryn >= (h - 1) * TRIG_DEN
SkippedInclusive(w, h, rxn, ryn) ==
    rxn < 0 \/ ryn < 0 \/ rxn > (w - 1) * TRIG_DEN \/ ryn > (h - 1) * TRIG_DEN
Skipped(w, h, rxn, ryn) ==
    rxn < 0 \/ ryn < 0 \/ rxn >= (w - 1) * TRIG_DEN \/ ryn >= (h - 1) * TRIG_DEN

FloorDen(n) == n \div TRIG_DEN
CeilDen(n) == -((-n) \div TRIG_DEN)

\* the offsets of tl, tr, bl, br in the source buffer
SampleOffsets(w, rxn, ryn) ==
    [tl |-> FloorDen(ryn) * w + FloorDen(rxn),
     tr |-> FloorDen(ryn) * w + CeilDen(rxn),
     bl |-> CeilDen(ryn) * w + FloorDen(rxn),
     br |-> CeilDen(ryn) * w + CeilDen(rxn)]

\* (int)round((1 - dy) * top + dy * bot) of byte k of the four samples, with
\* top = (1 - dx) * tl + dx * tr and bot = (1 - dx) * bl + dx * br
Bilinear(tl, tr, bl, br, dxn, dyn, k) ==
    LET top == (TRIG_DEN - dxn) * tl[k] + dxn * tr[k]
        bot == (TRIG_DEN - dxn) * bl[k] + dxn * br[k]
        num == (TRIG_DEN - dyn) * top + dyn * bot
    IN  (2 * num + TRIG_DEN * TRIG_DEN) \div (2 * TRIG_DEN * TRIG_DEN)

\* the colour handed to applyColor for a pixel that is not skipped: the
\* byte read at >> 16 goes to << 24, >> 8 to << 16, >> 0 to << 8 and the
\* byte read at >> 24 to << 0
RotatedColor(bitmap, rxn, ryn) ==
    LET o   == SampleOffsets(bitmap.width, rxn, ryn)
        tl  == Peek(bitmap, o.tl)
        tr  == Peek(bitmap, o.tr)
        bl  == Peek(bitmap, o.bl)
        br  == Peek(bitmap, o.br)
        dxn == rxn - FloorDen(rxn) * TRIG_DEN
        dyn == ryn - FloorDen(ryn) * TRIG_DEN
    IN  <<Bilinear(tl, tr, bl, br, dxn, dyn, 2),
          Bilinear(tl, tr, bl, br, dxn, dyn, 3),
          Bilinear(tl, tr, bl, br, dxn, dyn, 4),
          Bilinear(tl, tr, bl, br, dxn, dyn, 1)>>

\* the destination pixel at (x, y): calloc'ed zero, blended once if sampled
RotatedPixel(bitmap, x, y, t) ==
    LET w   == bitmap.width
        h   == bitmap.height
        rxn == RxNum(w, h, x, y, t)
        ryn == RyNum(w, h, x, y, t)
    IN  IF Skipped(w, h, rxn, ryn) THEN Transparent
        ELSE applyColor(RotatedColor(bitmap, rxn, ryn), Transparent)

rotateBitmap(bitmap, t) ==
    [width  |-> bitmap.width,
     height |-> bitmap.height,
     data   |-> [i \in 1..(bitmap.width * bitmap.height) |->
                   RotatedPixel(bitmap, (i - 1) % bitmap.width,
                                (i - 1) \div bitmap.width, t)]]

\* the destination pixels (x, y) rotateBitmap samples for
Sampled(bitmap, t) ==
    { p \in (0..(bitmap.width - 1)) \X (0..(bitmap.height - 1)) :
        ~Skipped(bitmap.width, bitmap.height,
                 RxNum(bitmap.width, bitmap.height, p[1], p[2], t),
                 RyNum(bitmap.width, bitmap.height, p[1], p[2], t)) }

\* offsets read through bitmap.data
RotateReads(bitmap, t) ==
    UNION { LET o == SampleOffsets(bitmap.width,
                       RxNum(bitmap.width, bitmap.height, p[1], p[2], t),
                       RyNum(bitmap.width, bitmap.height, p[1], p[2], t))
            IN  {o.tl, o.tr, o.bl, o.br} : p \in Sampled(bitmap, t) }

\* offsets written through dest + x
RotateWrites(bitmap, t) ==
    { p[2] * bitmap.width + p[1] : p \in Sampled(bitmap, t) }

\* input bitmaps: the sizes, each filled with the pixel palette starting at
\* every palette position
BitmapSizes == { <<3, 3>>, <<4, 3>>, <<3, 4>>, <<2, 2>> }
PixelPalette ==
    << White, Transparent, <<0, 0, 0, 255>>, <<128, 200, 100, 50>>,
       <<255, 10, 20, 30>>, <<64, 255, 0, 128>> >>
InputBitmaps ==
    { [width  |-> sz[1],
       height |-> sz[2],
       data   |-> [i \in 1..(sz[1] * sz[2]) |->
                     PixelPalette[((i + k) % Len(PixelPalette)) + 1]]] :
        sz \in BitmapSizes, k \in 1..Len(PixelPalette) }

RotateStep ==
    /\ rCount < MaxRotations
    /\ \E t \in Trigs :
          /\ rTrig' = t
          /\ rTrigPrev' = rTrig
          /\ rPrev' = rBitmap
          /\ rBitmap' = rotateBitmap(rBitmap, t)
          /\ rReads' = RotateReads(rBitmap, t)
          /\ rWrites' = RotateWrites(rBitmap, t)
    /\ rCount' = rCount + 1

EmptyBitmap == [width |-> 0, height |-> 0, data |-> <<>>]

IdleRot ==
    /\ rBitmap = EmptyBitmap
    /\ rPrev = EmptyBitmap
    /\ rTrig = Angle0
    /\ rTrigPrev = Angle0
    /\ rReads = {}
    /\ rWrites = {}
    /\ rCount = 0

---------------------------------------------------------------------------
(* The tile world: initMap, tileCompare, borderCollide *)

FlatCoord(x, y) == (y * MAPWIDTH) + x
Tile(x, y) == [x |-> x, y |-> y, flatCoord |-> FlatCoord(x, y)]

mapMinX == -(MAPWIDTH \div 2)
mapMaxX == MAPWIDTH \div 2
mapMinY == -(MAPHEIGHT \div 2)
mapMaxY == MAPHEIGHT \div 2

tileCompare(a, b) == a.flatCoord - b.flatCoord

RECURSIVE BSearch(_, _, _, _)
\* bsearch(&tile, tileArray, MAPLENGTH, sizeof(Tile), tileCompare): the index
\* of a matching entry, 0 for NULL; l and u are 0-based, u exclusive
BSearch(arr, key, l, u) ==
    IF l >= u THEN 0
    ELSE LET idx == (l + u) \div 2
             cmp == tileCompare(key, arr[idx + 1])
         IN  IF cmp < 0 THEN BSearch(arr, key, l, idx)
             ELSE IF cmp > 0 THEN BSearch(arr, key, idx + 1, u)
             ELSE idx + 1

\* 0 ("no collide") if bsearch finds the tile, 1 otherwise
borderCollide(arr, x, y) ==
    IF BSearch(arr, Tile(x, y), 0, MAPLENGTH) # 0 THEN 0 ELSE 1

\* the repeat test compares with the last entry only
IsRepeatLastOnly(arr, x, y) ==
    Len(arr) > 0 /\ arr[Len(arr)].x = x /\ arr[Len(arr)].y = y

\* for (p = tileArray; p < tile; ++p) if (p->x == x && p->y == y) repeat = 1
IsRepeat(arr, x, y) ==
    \E p \in 1..Len(arr) : arr[p].x = x /\ arr[p].y = y

\* the move of one step: r1 picks a direction, or hands the move to r2
StepX(r1, r2) ==
    IF r1 = 0 \/ (r1 = 4 /\ r2 = 0) THEN 1
    ELSE IF r1 = 1 \/ (r1 = 4 /\ r2 = 1) THEN -1
    ELSE 0
StepY(r1, r2) ==
    IF r1 = 0 \/ (r1 = 4 /\ r2 = 0) THEN 0
    ELSE IF r1 = 1 \/ (r1 = 4 /\ r2 = 1) THEN 0
    ELSE IF r1 = 2 \/ (r1 = 4 /\ r2 = 2) THEN 1
    ELSE IF r1 = 3 \/ (r1 = 4 /\ r2 = 3) THEN -1
    ELSE 0

\* if (x > mapMaxX) x = mapMaxX; ... if (x < mapMinX) x = mapMaxX;
ClampX(x) == IF x > mapMaxX THEN mapMaxX ELSE IF x < mapMinX THEN mapMaxX ELSE x
ClampY(y) == IF y > mapMaxY THEN mapMaxY ELSE IF y < mapMinY THEN mapMaxY ELSE y

\* the sequences that arise from inserting t into the sorted sequence s at a
\* place tileCompare allows
InsertSorted(s, t) ==
    { SubSeq(s, 1, k) \o <<t>> \o SubSeq(s, k + 1, Len(s)) :
        k \in { j \in 0..Len(s) :
                  /\ \A p \in 1..j : tileCompare(s[p], t) <= 0
                  /\ \A p \in (j + 1)..Len(s) : tileCompare(t, s[p]) <= 0 } }

RECURSIVE QSortResults(_)
\* qsort(tileArray, MAPLENGTH, sizeof(Tile), tileCompare): the orders qsort
\* may leave the array in (entries that compare equal come in any order)
QSortResults(arr) ==
    IF Len(arr) = 0 THEN { <<>> }
    ELSE UNION { InsertSorted(s, arr[Len(arr)]) :
                   s \in QSortResults(SubSeq(arr, 1, Len(arr) - 1)) }

\* one iteration of the loop of initMap
WalkStep ==
    /\ pcMap = "walk"
    /\ Len(tileArray) < MAPLENGTH
    /\ wi < MaxSteps
    /\ tileArray' = IF IsRepeat(tileArray, wx, wy) THEN tileArray
                    ELSE Append(tileArray, Tile(wx, wy))
    /\ \E r1 \in 0..4, newR2 \in 0..3 :
          /\ wr2' = IF wi % 20 = 0 THEN newR2 ELSE wr2
          /\ wx' = ClampX(wx + StepX(r1, wr2'))
          /\ wy' = ClampY(wy + StepY(r1, wr2'))
    /\ wi' = wi + 1
    /\ pcMap' = IF Len(tileArray') < MAPLENGTH THEN "walk" ELSE "sort"
    /\ UNCHANGED <<qx, qy, qres>>

\* the qsort that ends initMap; the locals of initMap end with it
SortStep ==
    /\ pcMap = "sort"
    /\ tileArray' \in QSortResults(tileArray)
    /\ pcMap' = "generated"
    /\ wx' = 0 /\ wy' = 0 /\ wr2' = 0 /\ wi' = 0
    /\ UNCHANGED <<qx, qy, qres>>

\* coordinates borderCollide is called with: the bounding box and a margin
\* of one map width around it
QueryXs == (mapMinX - MAPWIDTH)..(mapMaxX + MAPWIDTH)
QueryYs == (mapMinY - 1)..(mapMaxY + 1)

\* a call of borderCollide(x, y) on the generated map (the model follows
\* one call per run: the call changes no state of the program)
Query ==
    /\ pcMap = "generated"
    /\ qres = -1
    /\ \E x \in QueryXs, y \in QueryYs :
          /\ qx' = x
          /\ qy' = y
          /\ qres' = borderCollide(tileArray, x, y)
    /\ UNCHANGED <<tileArray, pcMap, wx, wy, wr2, wi>>

IdleMap ==
    /\ tileArray = <<>>
    /\ pcMap = "idle"
    /\ wx = 0 /\ wy = 0 /\ wr2 = 0 /\ wi = 0
    /\ qx = 0 /\ qy = 0 /\ qres = -1

---------------------------------------------------------------------------
(* The ripple pool: initRipple, animateRipple *)

\* f - g for floats f >= g > 0 whose exponents differ by at most 6 (alpha
\* between 0.03 and 1 and the step 0.03f)
FSub(f, g) == FRound(f.m * Pow2(f.e - g.e) - g.m, g.e, FALSE)

POOL_SIZE == 5
RIPPLE_SIZE == 100
RIPPLE_RADIUS == 20
Slots == 0..(POOL_SIZE - 1)

\* Ripple rippleArray[5] = {}: every field zero, data NULL (0)
ZeroRipple ==
    [bitmap |-> [data |-> 0, width |-> 0, height |-> 0],
     radius |-> 0, alpha |-> FZero, tileX |-> 0, tileY |-> 0, active |-> 0]

\* the wrap test one too late
WrapIndexLate(idx) == IF idx > POOL_SIZE THEN 0 ELSE idx

\* if (rippleIndex > 4) rippleIndex = 0;
WrapIndex(idx) == IF idx > POOL_SIZE - 1 THEN 0 ELSE idx

\* the ripple initRipple(x, y) writes, its bitmap the new allocation h; the
\* radius 20.0f and the radii 21.0f, 22.0f, ... are integers, exact as floats
NewRipple(x, y, h) ==
    [bitmap |-> [data |-> h, width |-> RIPPLE_SIZE, height |-> RIPPLE_SIZE],
     radius |-> RIPPLE_RADIUS, alpha |-> FNorm(1, 0),
     tileX |-> x, tileY |-> y, active |-> 1]

\* tiles a ripple is spawned on: (10, 10) by the key, the player's tile
SpawnTiles == { <<10, 10>>, <<0, 0>> }

initRipple(x, y) ==
    LET idx == WrapIndex(rippleIndex)
    IN  /\ rippleArray' = [rippleArray EXCEPT ![idx] = NewRipple(x, y, nextHandle)]
        /\ heapLive' = heapLive \cup {nextHandle}
        /\ nextHandle' = nextHandle + 1
        /\ rippleIndex' = idx + 1
        /\ lastSlot' = idx
        /\ rippleAge' = [rippleAge EXCEPT ![idx] = 0]
        /\ spawnCount' = spawnCount + 1
        /\ UNCHANGED <<heapFreed, heapErr, rippleTouched, frameCount,
                       spawnBudget, frameBudget>>

Spawn ==
    /\ spawnCount < spawnBudget
    /\ \E t \in SpawnTiles : initRipple(t[1], t[2])

\* the limit rounded up instead of down
RadiusLimitUp(width) == (width - 5 + 1) \div 2

\* (ripple->bitmap.width - 5) / 2, an integer division
RadiusLimit(width) == (width - 5) \div 2

\* ripple->alpha -= 0.03f
AlphaStep == FDivInt(3, 100)

\* the body of the loop of animateRipple for an active ripple
Animated(r) ==
    LET radius == r.radius + 1
    IN  [r EXCEPT !.radius = radius,
                  !.alpha = FSub(r.alpha, AlphaStep),
                  !.active = IF radius >= RadiusLimit(r.bitmap.width) THEN 0 ELSE 1]

\* every slot that was ever spawned into
ActiveSlotsEverSpawned(arr) == { i \in Slots : arr[i].bitmap.data # 0 }

\* if (!ripple->active) continue;
ActiveSlots(arr) == { i \in Slots : arr[i].active # 0 }

\* one call of animateRipple: every active ripple is cleared, grown, drawn
\* into its bitmap and onto the display, and released at its limit (the
\* pixels of the bitmaps and of the display are not part of this state: the
\* accesses to each bitmap are)
animateRipple ==
    LET actives  == ActiveSlots(rippleArray)
        used     == { rippleArray[i].bitmap.data : i \in actives }
        released == { rippleArray[i].bitmap.data :
                        i \in { j \in actives : Animated(rippleArray[j]).active = 0 } }
    IN  /\ frameCount < frameBudget
        /\ rippleArray' = [i \in Slots |->
                             IF i \in actives THEN Animated(rippleArray[i])
                             ELSE rippleArray[i]]
        /\ rippleTouched' = used
        /\ heapLive' = heapLive \ released
        /\ heapFreed' = heapFreed \cup released
        /\ heapErr' = heapErr \cup (used \ heapLive) \cup (released \ heapLive)
        /\ rippleAge' = [i \in Slots |-> rippleAge[i] + 1]
        /\ frameCount' = frameCount + 1
        /\ UNCHANGED <<rippleIndex, nextHandle, spawnCount, lastSlot,
                       spawnBudget, frameBudget>>

PoolStart ==
    /\ rippleArray = [i \in Slots |-> ZeroRipple]
    /\ rippleIndex = 0
    /\ heapLive = {}
    /\ heapFreed = {}
    /\ heapErr = {}
    /\ nextHandle = 1
    /\ rippleTouched = {}
    /\ spawnCount = 0
    /\ frameCount = 0
    /\ lastSlot = 0
    /\ rippleAge = [i \in Slots |-> 0]

IdleRipple ==
    /\ PoolStart
    /\ spawnBudget = 0
    /\ frameBudget = 0

---------------------------------------------------------------------------
(* The sprite compositor: scaleBitmap, vflipBitmap, drawBitmap *)

\* a / b of C, for b > 0: the quotient truncates toward zero
CDiv(a, b) == IF a >= 0 THEN a \div b ELSE -((-a) \div b)

\* the scale factor is the fraction n / d, d a power of two (exact as a
\* float, as are width * scale and height * scale for these sizes)
Scale1 == [n |-> 1, d |-> 1]
Scales == { [n |-> 1, d |-> 2], Scale1, [n |-> 3, d |-> 2] }

\* (int)((float)size * scale): scaledBitmap.width and scaledBitmap.height
ScaledSize(size, sc) == (size * sc.n) \div sc.d

\* wRatio = (float)w / wScaled and hRatio = (float)h / hScaled
ScaleRatio(size, sc) == FDivInt(size * sc.d, size * sc.n)

\* the row stride taken from the height
ScaleSrcOffsetHeightStride(bitmap, x, y, sc) ==
    FTrunc(FMulInt(ScaleRatio(bitmap.height, sc), y)) * bitmap.height
        + FTrunc(FMulInt(ScaleRatio(bitmap.width, sc), x))

\* yStride + (int)(x * wRatio), with yStride = (int)(y * hRatio) * bitmap.width
ScaleSrcOffset(bitmap, x, y, sc) ==
    FTrunc(FMulInt(ScaleRatio(bitmap.height, sc), y)) * bitmap.width
        + FTrunc(FMulInt(ScaleRatio(bitmap.width, sc), x))

scaleBitmap(bitmap, sc) ==
    LET sw == ScaledSize(bitmap.width, sc)
        sh == ScaledSize(bitmap.height, sc)
    IN  [width  |-> sw,
         height |-> sh,
         data   |-> [i \in 1..(sw * sh) |->
                       Peek(bitmap, ScaleSrcOffset(bitmap, (i - 1) % sw,
                                                   (i - 1) \div sw, sc))]]

\* offsets scaleBitmap reads through bitmap.data
ScaleReads(bitmap, sc) ==
    { ScaleSrcOffset(bitmap, x, y, sc) :
        x \in 0..(ScaledSize(bitmap.width, sc) - 1),
        y \in 0..(ScaledSize(bitmap.height, sc) - 1) }

\* row y of the bitmap is written to row h - 1 - y
vflipBitmap(bitmap) ==
    [width  |-> bitmap.width,
     height |-> bitmap.height,
     data   |-> [i \in 1..(bitmap.width * bitmap.height) |->
                   LET x == (i - 1) % bitmap.width
                       y == (i - 1) \div bitmap.width
                   IN  bitmap.data[(bitmap.height - 1 - y) * bitmap.width + x + 1]]]

\* fabs(angle - M_PI) < 0.1f: the angles whose cosine is below -cos(0.1),
\* -0.995004...
NearPi(t) == t.c * 1000 < -995 * TRIG_DEN

\* the display of drawBitmap: display.width x display.height pixels (960 x
\* 540 in the program)
SpriteDisplayW == 4
SpriteDisplayH == 3
\* successive calls of drawBitmap (one per frame) with the same arguments
MaxDraws == 1

\* if (x1 < 0) { xoff = -x1; x1 = 0; }
ClipLowOff(v) == IF v < 0 THEN -v ELSE 0
ClipLow(v) == IF v < 0 THEN 0 ELSE v

\* the high side not clipped
ClipHighNone(v, limit) == v

\* if (x2 > display.width) x2 = display.width;
ClipHigh(v, limit) == IF v > limit THEN limit ELSE v

\* the destination rectangle of drawBitmap after clipping, and the offsets
\* into the rotated bitmap
SpriteRect(bitmap, scaled, x, y) ==
    LET x1 == x + CDiv(bitmap.width - scaled.width, 2)
        y1 == y + CDiv(bitmap.height - scaled.height, 2)
    IN  [x1   |-> ClipLow(x1),
         y1   |-> ClipLow(y1),
         x2   |-> ClipHigh(x1 + scaled.width, SpriteDisplayW),
         y2   |-> ClipHigh(y1 + scaled.height, SpriteDisplayH),
         xoff |-> ClipLowOff(x1),
         yoff |-> ClipLowOff(y1)]

\* the pixels (x, y) the two loops of drawBitmap visit
SpriteCells(r) == (r.x1..(r.x2 - 1)) \X (r.y1..(r.y2 - 1))

\* src + (x - x1) in row y - y1 of the clipped region, as an offset into
\* rotatedBitmap.data
SpriteReadOffset(r, rotated, p) ==
    (r.yoff + (p[2] - r.y1)) * rotated.width + r.xoff + (p[1] - r.x1)

\* dest + x in row y of the display, as an offset into display.buffer
SpriteWriteOffset(p) == p[2] * SpriteDisplayW + p[1]

\* if (color != 0xffffffff && color != 0) color = 0x000000ff;
Silhouette(color) ==
    IF color # White /\ color # Transparent THEN <<0, 0, 0, 255>> ELSE color

\* the bitmap drawBitmap draws from: the scaled bitmap rotated, and flipped
\* when the angle is near pi
SpriteSource(scaled, t) ==
    IF NearPi(t) THEN vflipBitmap(rotateBitmap(scaled, t))
    ELSE rotateBitmap(scaled, t)

\* the display after the loops of drawBitmap (each visited pixel is written
\* once: x < display.width)
SpriteDrawn(buffer, r, rotated) ==
    [o \in 1..Len(buffer) |->
        LET hits == { p \in SpriteCells(r) : SpriteWriteOffset(p) = o - 1 }
        IN  IF hits = {} THEN buffer[o]
            ELSE LET p == CHOOSE q \in hits : TRUE
                 IN  applyColor(
                         Silhouette(Peek(rotated, SpriteReadOffset(r, rotated, p))),
                         buffer[o])]

\* the allocations one call makes, numbered from h: the scaled bitmap, the
\* rotated bitmap and, near pi, the flipped bitmap; and the ones it frees:
\* rotatedBitmap.data (the flipped bitmap once rotatedBitmap was assigned
\* the result of vflipBitmap) and scaledBitmap.data
SpriteAllocs(h, t) == IF NearPi(t) THEN {h, h + 1, h + 2} ELSE {h, h + 1}
SpriteFrees(h, t) == IF NearPi(t) THEN {h + 2, h} ELSE {h + 1, h}

\* one call drawBitmap(bitmap, x, y, angle, scale)
drawBitmap ==
    LET scaled  == scaleBitmap(sBitmap, sScale)
        r       == SpriteRect(sBitmap, scaled, sX, sY)
        rotated == SpriteSource(scaled, sTrig)
    IN  /\ sCount < MaxDraws
        /\ sScaled' = scaled
        /\ sScaleReads' = ScaleReads(sBitmap, sScale)
        /\ sRotated' = rotated
        /\ sRect' = r
        /\ sReads' = { SpriteReadOffset(r, rotated, p) : p \in SpriteCells(r) }
        /\ sWrites' = { SpriteWriteOffset(p) : p \in SpriteCells(r) }
        /\ sDisplayPrev' = sDisplay
        /\ sDisplay' = SpriteDrawn(sDisplay, r, rotated)
        /\ sLive' = (sLive \cup SpriteAllocs(sNextHandle, sTrig))
                        \ SpriteFrees(sNextHandle, sTrig)
        /\ sNextHandle' = sNextHandle + Cardinality(SpriteAllocs(sNextHandle, sTrig))
        /\ sCount' = sCount + 1
        /\ UNCHANGED <<sBitmap, sX, sY, sTrig, sScale>>

\* the bitmaps, placements and angles drawBitmap is called with
SpriteBitmaps ==
    { b \in InputBitmaps :
        /\ <<b.width, b.height>> \in { <<4, 3>>, <<3, 4>>, <<2, 2>> }
        /\ b.data[1] = White }
\* x and y: the sprite left of (above) the display, across its left (top)
\* edge, inside it, across its right (bottom) edge, right of (below) it
SpriteXs == { -7, -2, 0, 2, 5 }
SpriteYs == { -7, -2, 0, 1, 4 }
SpriteTrigs == { Angle0, [c |-> -5, s |-> 0], [c |-> 4, s |-> 3] }

\* the frame buffer before the sprite is drawn: the gold of fillBitmap
Gold == <<235, 155, 52, 255>>
BlankDisplay == [o \in 1..(SpriteDisplayW * SpriteDisplayH) |-> Gold]

IdleSprite ==
    /\ sBitmap = EmptyBitmap
    /\ sX = 0 /\ sY = 0
    /\ sTrig = Angle0
    /\ sScale = Scale1
    /\ sScaled = EmptyBitmap
    /\ sScaleReads = {}
    /\ sRotated = EmptyBitmap
    /\ sRect = [x1 |-> 0, y1 |-> 0, x2 |-> 0, y2 |-> 0, xoff |-> 0, yoff |-> 0]
    /\ sReads = {}
    /\ sWrites = {}
    /\ sDisplay = <<>>
    /\ sDisplayPrev = <<>>
    /\ sLive = {}
    /\ sNextHandle = 1
    /\ sCount = 0

---------------------------------------------------------------------------
(* Signed single-precision arithmetic: the camera's pixelX, velocityX, ... *)

\* f * g for non-negative floats: the 48-bit product of the mantissas from
\* their 12-bit halves, rounded once
FMul(f, g) ==
    IF f.m = 0 \/ g.m = 0 THEN FZero
    ELSE LET fh    == f.m \div 4096
             fl    == f.m % 4096
             gh    == g.m \div 4096
             gl    == g.m % 4096
             mid   == fh * gl + fl * gh
             low   == (mid % 4096) * 4096 + fl * gl
             high  == fh * gh + (mid \div 4096) + (low \div 16777216)
             rest  == low % 16777216
         IN  FRound(high * 64 + (rest \div 262144), f.e + g.e + 18,
                    rest % 262144 # 0)

\* f < g for non-negative floats
FLess(f, g) ==
    IF g.m = 0 THEN FALSE
    ELSE IF f.m = 0 THEN TRUE
    ELSE f.e < g.e \/ (f.e = g.e /\ f.m < g.m)

\* f - g for non-negative floats f >= g
FDiff(f, g) ==
    IF g.m = 0 THEN f
    ELSE LET shift == f.e - g.e
         IN  IF shift <= 6
             THEN FRound(f.m * Pow2(shift) - g.m, g.e, FALSE)
             ELSE IF shift - 6 >= 24
             THEN FRound(f.m * 64 - 1, f.e - 6, TRUE)
             ELSE LET q == g.m \div Pow2(shift - 6)
                      t == g.m % Pow2(shift - 6) # 0
                  IN  FRound(f.m * 64 - q - (IF t THEN 1 ELSE 0), f.e - 6, t)

\* a signed float: its sign and its magnitude (zero is not negative)
Signed(neg, mag) == [neg |-> neg /\ mag.m # 0, mag |-> mag]
SZero == Signed(FALSE, FZero)
\* (float)n for an int |n| < 2^24
SInt(n) == IF n < 0 THEN Signed(TRUE, FNorm(-n, 0)) ELSE Signed(FALSE, FNorm(n, 0))
SNeg(a) == Signed(~a.neg, a.mag)
SMul(a, b) == Signed(a.neg # b.neg, FMul(a.mag, b.mag))
SAdd(a, b) ==
    IF a.neg = b.neg THEN Signed(a.neg, FAdd(a.mag, b.mag))
    ELSE IF FLess(a.mag, b.mag) THEN Signed(b.neg, FDiff(b.mag, a.mag))
    ELSE Signed(a.neg, FDiff(a.mag, b.mag))
SSub(a, b) == SAdd(a, SNeg(b))
SLess(a, b) ==
    IF a.neg /\ ~b.neg THEN TRUE
    ELSE IF ~a.neg /\ b.neg THEN FALSE
    ELSE IF a.neg THEN FLess(b.mag, a.mag)
    ELSE FLess(a.mag, b.mag)
\* (int)a: the conversion truncates toward zero
STrunc(a) == IF a.neg THEN -FTrunc(a.mag) ELSE FTrunc(a.mag)

---------------------------------------------------------------------------
(* The camera and the scrolling renderer: updateCamera, drawMap,
   drawBackground *)

TILESIZE == 48
DISPLAY_PW == 960
DISPLAY_PH == 540
DISPLAY_TW == DISPLAY_PW \div TILESIZE
DISPLAY_TH == DISPLAY_PH \div TILESIZE
SCROLL_TW == DISPLAY_TW - 5
SCROLL_TH == DISPLAY_TH - 5
SCROLL_PW == SCROLL_TW * TILESIZE
SCROLL_PH == SCROLL_TH * TILESIZE

\* dtFrame = 1.0f / 60.0f
dtFrame == Signed(FALSE, FDivInt(1, 60))

\* (2 * SCROLL_PW) / pow(0.75, 2), assigned to a float: pow(0.75, 2) is
\* 0.5625 = 9 / 16 exactly
ScrollAccel(span) == Signed(FALSE, FDivInt(2 * span * 16, 9))

\* int horizEdge = (DISPLAY_TW / 2) - 2; int vertEdge = (DISPLAY_TH / 2) - 2;
HorizEdge == (DISPLAY_TW \div 2) - 2
VertEdge == (DISPLAY_TH \div 2) - 2

\* main: the camera on tile (0, 0), at rest (cam is a global: the fields
\* main does not set are zero)
CamStart ==
    [tileX |-> 0, tileY |-> 0, destTileX |-> 0, destTileY |-> 0,
     pixelX |-> SZero, pixelY |-> SZero,
     velocityX |-> SZero, velocityY |-> SZero,
     accelX |-> SZero, accelY |-> SZero]

\* the positive direction tested with > as the negative one is with <
TriggerBranchStrict(c, px, py) ==
    IF ~(c.destTileX = c.tileX /\ c.destTileY = c.tileY) THEN "none"
    ELSE IF px - c.tileX < -HorizEdge THEN "left"
    ELSE IF px - c.tileX > HorizEdge THEN "right"
    ELSE IF py - c.tileY < -VertEdge THEN "up"
    ELSE IF py - c.tileY > VertEdge THEN "down"
    ELSE "none"

\* the branch the first part of updateCamera takes for the player on tile
\* (px, py)
TriggerBranch(c, px, py) ==
    IF ~(c.destTileX = c.tileX /\ c.destTileY = c.tileY) THEN "none"
    ELSE IF px - c.tileX < -HorizEdge THEN "left"
    ELSE IF px - c.tileX >= HorizEdge THEN "right"
    ELSE IF py - c.tileY < -VertEdge THEN "up"
    ELSE IF py - c.tileY >= VertEdge THEN "down"
    ELSE "none"

\* the two axes tested independently of each other
CamTriggeredBothAxes(c, px, py) ==
    IF ~(c.destTileX = c.tileX /\ c.destTileY = c.tileY) THEN c
    ELSE LET cx == IF px - c.tileX < -HorizEdge
                   THEN [c EXCEPT !.accelX = SNeg(ScrollAccel(SCROLL_PW)),
                                  !.destTileX = c.tileX - SCROLL_TW]
                   ELSE IF px - c.tileX >= HorizEdge
                   THEN [c EXCEPT !.accelX = ScrollAccel(SCROLL_PW),
                                  !.destTileX = c.tileX + SCROLL_TW]
                   ELSE c
         IN  IF py - c.tileY < -VertEdge
             THEN [cx EXCEPT !.accelY = SNeg(ScrollAccel(SCROLL_PH)),
                             !.destTileY = c.tileY - SCROLL_TH]
             ELSE IF py - c.tileY >= VertEdge
             THEN [cx EXCEPT !.accelY = ScrollAccel(SCROLL_PH),
                             !.destTileY = c.tileY + SCROLL_TH]
             ELSE cx

\* the camera after the first part of updateCamera
CamTriggered(c, px, py) ==
    LET branch == TriggerBranch(c, px, py)
    IN  IF branch = "left"
        THEN [c EXCEPT !.accelX = SNeg(ScrollAccel(SCROLL_PW)),
                       !.destTileX = c.tileX - SCROLL_TW]
        ELSE IF branch = "right"
        THEN [c EXCEPT !.accelX = ScrollAccel(SCROLL_PW),
                       !.destTileX = c.tileX + SCROLL_TW]
        ELSE IF branch = "up"
        THEN [c EXCEPT !.accelY = SNeg(ScrollAccel(SCROLL_PH)),
                       !.destTileY = c.tileY - SCROLL_TH]
        ELSE IF branch = "down"
        THEN [c EXCEPT !.accelY = ScrollAccel(SCROLL_PH),
                       !.destTileY = c.tileY + SCROLL_TH]
        ELSE c

\* drawMap left out of the four branches
DrawMapNever(c, px, py) == FALSE

\* drawMap is called in every frame
DrawMapAlways(c, px, py) == TRUE

\* drawMap is called in each of the four branches, and nowhere else in
\* updateCamera
DrawMapCalled(c, px, py) == TriggerBranch(c, px, py) # "none"

\* the deceleration starts at a quarter of the span
PastMidpointEarly(pixel, span) ==
    \/ SLess(SInt(CDiv(span, 4)), pixel)
    \/ SLess(pixel, SInt(CDiv(-span, 4)))

\* cam.pixelX > SCROLL_PW / 2 || cam.pixelX < -SCROLL_PW / 2
PastMidpoint(pixel, span) ==
    \/ SLess(SInt(CDiv(span, 2)), pixel)
    \/ SLess(pixel, SInt(CDiv(-span, 2)))

\* the velocity and the pixel offset of the scrolling axis after one step
ScrollVelocity(pixel, velocity, accel, span) ==
    IF PastMidpoint(pixel, span) THEN SSub(velocity, SMul(accel, dtFrame))
    ELSE SAdd(velocity, SMul(accel, dtFrame))
ScrollPixel(pixel, velocity, accel, span) ==
    SAdd(pixel, SMul(ScrollVelocity(pixel, velocity, accel, span), dtFrame))

\* the camera after the second part of updateCamera
CamMoved(c) ==
    IF c.destTileX # c.tileX
    THEN LET v == ScrollVelocity(c.pixelX, c.velocityX, c.accelX, SCROLL_PW)
             p == ScrollPixel(c.pixelX, c.velocityX, c.accelX, SCROLL_PW)
         IN  IF ~SLess(p, SInt(SCROLL_PW))
             THEN [c EXCEPT !.velocityX = SZero, !.pixelX = SZero,
                            !.tileX = c.tileX + SCROLL_TW]
             ELSE IF SLess(p, SInt(-SCROLL_PW))
             THEN [c EXCEPT !.velocityX = SZero, !.pixelX = SZero,
                            !.tileX = c.tileX - SCROLL_TW]
             ELSE [c EXCEPT !.velocityX = v, !.pixelX = p]
    ELSE IF c.destTileY # c.tileY
    THEN LET v == ScrollVelocity(c.pixelY, c.velocityY, c.accelY, SCROLL_PH)
             p == ScrollPixel(c.pixelY, c.velocityY, c.accelY, SCROLL_PH)
         IN  IF ~SLess(p, SInt(SCROLL_PH))
             THEN [c EXCEPT !.velocityY = SZero, !.pixelY = SZero,
                            !.tileY = c.tileY + SCROLL_TH]
             ELSE IF SLess(p, SInt(-SCROLL_PH))
             THEN [c EXCEPT !.velocityY = SZero, !.pixelY = SZero,
                            !.tileY = c.tileY - SCROLL_TH]
             ELSE [c EXCEPT !.velocityY = v, !.pixelY = p]
    ELSE c

Stationary(c) == c.destTileX = c.tileX /\ c.destTileY = c.tileY

\* the reach of the corridors of walkable tiles west, east, north and south
\* of (0, 0), and the width of the block of tiles at the east end
WestReach == 9
EastReach == 8
NorthReach == 4
SouthReach == 3
BlockWidth == 2

\* the tiles the player can stand on in the camera's runs: a corridor along
\* each axis through (0, 0) and a block of tiles south of the east end of
\* the horizontal corridor
Walkable(x, y) ==
    \/ y = 0 /\ x >= -WestReach /\ x <= EastReach
    \/ x = 0 /\ y >= -NorthReach /\ y <= SouthReach
    \/ x >= EastReach - BlockWidth /\ x <= EastReach /\ y >= 0 /\ y <= SouthReach

\* the changes updatePlayer makes to the player's tile in one call: none,
\* ++player.x, --player.x, ++player.y or --player.y, onto a tile
\* borderCollide lets the player move to (the camera reads nothing else of
\* the player)
PlayerMoves == { <<0, 0>>, <<1, 0>>, <<-1, 0>>, <<0, 1>>, <<0, -1>> }

PlayerTileStep ==
    /\ pcCam = "updatePlayer"
    /\ \E d \in PlayerMoves :
          /\ Walkable(playerX + d[1], playerY + d[2])
          /\ playerX' = playerX + d[1]
          /\ playerY' = playerY + d[2]
    /\ pcCam' = "updateCamera"
    /\ UNCHANGED <<cam, camPrev, camAge, drawMapCalls, bgBufferOld,
                   bgBufferNew, frameProbes>>

\* what a view buffer holds: the zeroes of calloc, or the view drawMap
\* painted around a destination tile
ZeroView == [painted |-> FALSE, tileX |-> 0, tileY |-> 0]
View(x, y) == [painted |-> TRUE, tileX |-> x, tileY |-> y]

\* updateCamera, with the drawMap of its four branches: drawMap copies the
\* new buffer into the old one and paints the new one around cam.destTile
updateCamera ==
    LET triggered == CamTriggered(cam, playerX, playerY)
        called    == DrawMapCalled(cam, playerX, playerY)
    IN  /\ pcCam = "updateCamera"
        /\ cam' = CamMoved(triggered)
        /\ camPrev' = cam
        /\ drawMapCalls' = IF called THEN 1 ELSE 0
        /\ bgBufferOld' = IF called THEN bgBufferNew ELSE bgBufferOld
        /\ bgBufferNew' = IF called
                          THEN View(triggered.destTileX, triggered.destTileY)
                          ELSE bgBufferNew
        /\ camAge' = IF Stationary(cam') THEN 0 ELSE camAge + 1
        /\ pcCam' = "drawBackground"
        /\ UNCHANGED <<playerX, playerY, frameProbes>>

\* the wrap by the width of the display
BackgroundSourceWrapDisplay(x, y) ==
    IF x < 0 THEN [buffer |-> "new", x |-> x + DISPLAY_PW, y |-> y]
    ELSE IF x >= DISPLAY_PW THEN [buffer |-> "new", x |-> x - DISPLAY_PW, y |-> y]
    ELSE IF y < 0 THEN [buffer |-> "new", x |-> x, y |-> y + DISPLAY_PH]
    ELSE IF y >= DISPLAY_PH THEN [buffer |-> "new", x |-> x, y |-> y - DISPLAY_PH]
    ELSE [buffer |-> "old", x |-> x, y |-> y]

\* the buffer src points into and newX, newY for the position (x, y), in the
\* loop of drawBackground
BackgroundSource(x, y) ==
    IF x < 0 THEN [buffer |-> "new", x |-> x + SCROLL_PW, y |-> y]
    ELSE IF x >= DISPLAY_PW THEN [buffer |-> "new", x |-> x - SCROLL_PW, y |-> y]
    ELSE IF y < 0 THEN [buffer |-> "new", x |-> x, y |-> y + SCROLL_PH]
    ELSE IF y >= DISPLAY_PH THEN [buffer |-> "new", x |-> x, y |-> y - SCROLL_PH]
    ELSE [buffer |-> "old", x |-> x, y |-> y]

\* what drawBackground writes to the frame-buffer pixel (i, j): the buffer
\* and the offset (newY * DISPLAY_PW) + newX it reads, and the view that
\* buffer holds; a camera at rest copies the new buffer
BackgroundPixel(c, old, new, i, j) ==
    IF c.tileX # c.destTileX \/ c.tileY # c.destTileY
    THEN LET s == BackgroundSource(i + STrunc(c.pixelX), j + STrunc(c.pixelY))
         IN  [buffer |-> s.buffer,
              offset |-> (s.y * DISPLAY_PW) + s.x,
              view   |-> IF s.buffer = "new" THEN new ELSE old]
    ELSE [buffer |-> "new", offset |-> (j * DISPLAY_PW) + i, view |-> new]

\* the pixels of the frame buffer the model follows: in each row and column
\* the first and the last pixel and the pixels on both sides of the places
\* where the position leaves the old buffer
ProbeIndexes(min, size) ==
    { i \in { 0, -min - 1, -min, size - 1 - min, size - min, size - 1 } :
        i >= 0 /\ i < size }
ProbePixels(c) ==
    ProbeIndexes(STrunc(c.pixelX), DISPLAY_PW)
        \X ProbeIndexes(STrunc(c.pixelY), DISPLAY_PH)

drawBackground ==
    /\ pcCam = "drawBackground"
    /\ frameProbes' = [p \in ProbePixels(cam) |->
                         BackgroundPixel(cam, bgBufferOld, bgBufferNew, p[1], p[2])]
    /\ pcCam' = "updatePlayer"
    /\ UNCHANGED <<cam, camPrev, camAge, drawMapCalls, bgBufferOld,
                   bgBufferNew, playerX, playerY>>

\* main before its loop: the camera and the player on (0, 0), both buffers
\* allocated, drawMap called once
CameraStart ==
    /\ cam = CamStart
    /\ camPrev = CamStart
    /\ camAge = 0
    /\ drawMapCalls = 0
    /\ playerX = 0
    /\ playerY = 0
    /\ bgBufferOld = ZeroView
    /\ bgBufferNew = View(0, 0)
    /\ frameProbes = <<>>

IdleCam ==
    /\ CameraStart
    /\ pcCam = "idle"

---------------------------------------------------------------------------
(* The player: updatePlayer on a generated map *)

\* the number of calls of updatePlayer that read a pressed arrow key
MaxPlayerMoves == 2

\* the draws r1 of three walks of initMap (0: ++x, 1: --x, 2: ++y, 3: --y;
\* r1 = 4 hands the move to r2 and adds no other walk): one that leaves the
\* box on the low side, one around a block of four tiles, one along two arms
PlayerWalks ==
    { <<1, 2, 3, 1, 1, 3, 1, 1>>,
      <<0, 2, 1, 1, 3, 3, 0, 0>>,
      <<0, 1, 2, 2, 1, 1, 3, 3>> }

RECURSIVE WalkOf(_, _, _, _)
\* tileArray when the loop of initMap ends, for a walk at (x, y) with the
\* draws still to come
WalkOf(arr, x, y, draws) ==
    LET recorded == IF IsRepeat(arr, x, y) THEN arr ELSE Append(arr, Tile(x, y))
    IN  IF Len(recorded) >= MAPLENGTH \/ draws = <<>> THEN recorded
        ELSE WalkOf(recorded,
                    ClampX(x + StepX(Head(draws), 0)),
                    ClampY(y + StepY(Head(draws), 0)),
                    Tail(draws))

\* the maps initMap returns for these walks
PlayerMaps ==
    UNION { QSortResults(WalkOf(<<>>, 0, 0, d)) : d \in PlayerWalks }

\* the arrow keys of a snapshot (z and x change the scale only)
ArrowKeys == [key_left : {0, 1}, key_right : {0, 1}, key_up : {0, 1}, key_down : {0, 1}]
NoArrow == [key_left |-> 0, key_right |-> 0, key_up |-> 0, key_down |-> 0]

\* float accel = (2 * TILESIZE) / pow(0.2, 2): 2400 as a float
PlayerAccel == Signed(FALSE, FDivInt(2 * TILESIZE * 25, 1))

\* main: the player on (0, 0), at rest (player is a global: the fields main
\* does not set are zero).  angle, destAngle, scale and the directions are
\* not followed: updatePlayer reads them only to write them
PlayerStart ==
    [x |-> 0, y |-> 0, destX |-> 0, destY |-> 0,
     pixelX |-> SZero, pixelY |-> SZero,
     accelX |-> SZero, accelY |-> SZero,
     velocityX |-> SZero, velocityY |-> SZero]

AtRest(p) == p.destX = p.x /\ p.destY = p.y

\* the four key tests, made only while no movement is under way
Keyed(p, k) ==
    IF ~AtRest(p) THEN p
    ELSE LET l == IF k.key_left # 0
                  THEN [p EXCEPT !.accelX = SNeg(PlayerAccel), !.destX = p.x - 1]
                  ELSE p
             r == IF k.key_right # 0
                  THEN [l EXCEPT !.accelX = PlayerAccel, !.destX = p.x + 1]
                  ELSE l
             u == IF k.key_up # 0
                  THEN [r EXCEPT !.accelY = SNeg(PlayerAccel), !.destY = p.y - 1]
                  ELSE r
         IN  IF k.key_down # 0
             THEN [u EXCEPT !.accelY = PlayerAccel, !.destY = p.y + 1]
             ELSE u

\* the destination of an axis is taken back when borderCollide reports no
\* tile there
Collided(arr, p) ==
    LET cx == IF p.destX # p.x /\ borderCollide(arr, p.destX, p.y) # 0
              THEN [p EXCEPT !.destX = p.x] ELSE p
    IN  IF cx.destY # cx.y /\ borderCollide(arr, cx.x, cx.destY) # 0
        THEN [cx EXCEPT !.destY = cx.y] ELSE cx

\* both axes integrated in one call
PlayerMovedBothAxes(p) ==
    LET vx == SAdd(p.velocityX, SMul(p.accelX, dtFrame))
        px == SAdd(p.pixelX, SMul(vx, dtFrame))
        vy == SAdd(p.velocityY, SMul(p.accelY, dtFrame))
        py == SAdd(p.pixelY, SMul(vy, dtFrame))
        ax == IF p.destX = p.x THEN p
              ELSE IF ~SLess(px, SInt(TILESIZE))
              THEN [p EXCEPT !.pixelX = SZero, !.x = p.x + 1, !.velocityX = SZero]
              ELSE IF SLess(px, SInt(-TILESIZE))
              THEN [p EXCEPT !.pixelX = SZero, !.x = p.x - 1, !.velocityX = SZero]
              ELSE [p EXCEPT !.pixelX = px, !.velocityX = vx]
    IN  IF p.destY = p.y THEN ax
        ELSE IF ~SLess(py, SInt(TILESIZE))
        THEN [ax EXCEPT !.pixelY = SZero, !.y = p.y + 1, !.accelX = SZero,
                        !.velocityY = SZero]
        ELSE IF SLess(py, SInt(-TILESIZE))
        THEN [ax EXCEPT !.pixelY = SZero, !.y = p.y - 1, !.accelX = SZero,
                        !.velocityY = SZero]
        ELSE [ax EXCEPT !.pixelY = py, !.velocityY = vy]

\* the integration of the axis that moves: x if destX differs, else y
PlayerMoved(p) ==
    LET vx == SAdd(p.velocityX, SMul(p.accelX, dtFrame))
        px == SAdd(p.pixelX, SMul(vx, dtFrame))
        vy == SAdd(p.velocityY, SMul(p.accelY, dtFrame))
        py == SAdd(p.pixelY, SMul(vy, dtFrame))
    IN  IF p.destX # p.x
        THEN IF ~SLess(px, SInt(TILESIZE))
             THEN [p EXCEPT !.pixelX = SZero, !.x = p.x + 1, !.velocityX = SZero]
             ELSE IF SLess(px, SInt(-TILESIZE))
             THEN [p EXCEPT !.pixelX = SZero, !.x = p.x - 1, !.velocityX = SZero]
             ELSE [p EXCEPT !.pixelX = px, !.velocityX = vx]
        ELSE IF p.destY # p.y
        THEN IF ~SLess(py, SInt(TILESIZE))
             THEN [p EXCEPT !.pixelY = SZero, !.y = p.y + 1, !.accelX = SZero,
                            !.velocityY = SZero]
             ELSE IF SLess(py, SInt(-TILESIZE))
             THEN [p EXCEPT !.pixelY = SZero, !.y = p.y - 1, !.accelX = SZero,
                            !.velocityY = SZero]
             ELSE [p EXCEPT !.pixelY = py, !.velocityY = vy]
        ELSE p

\* updatePlayer: the keys (read only at rest: under way every snapshot
\* gives the same call), the collision tests, the movement, and the ripple
\* initRipple spawns on the tile the player arrives on
updatePlayer ==
    \E k \in IF AtRest(player) THEN ArrowKeys ELSE {pKeys} :
        LET pressed == AtRest(player) /\ k # NoArrow
            moved   == PlayerMoved(Collided(tileArray, Keyed(player, k)))
        IN  /\ pressed => pMoves < MaxPlayerMoves
            /\ player' = moved
            /\ playerBefore' = player
            /\ pKeys' = k
            /\ pMoves' = IF pressed THEN pMoves + 1 ELSE pMoves
            /\ IF moved.x # player.x \/ moved.y # player.y
               THEN initRipple(moved.x, moved.y)
               ELSE UNCHANGED rippleVars

PlayerIdle ==
    /\ player = PlayerStart
    /\ playerBefore = PlayerStart
    /\ pKeys = NoArrow
    /\ pMoves = 0

---------------------------------------------------------------------------
(* animateRipple: the rings drawn into the bitmap, the bitmap composited
   onto the frame buffer drawMap painted *)

\* the calls of animateRipple a run of the drawing is followed for, and the
\* ripples spawned in it
MaxDrawFrames == 27
MaxDrawSpawns == 1

\* rippleLine = 0.0f, 1.0f, 2.0f, 3.0f
RIPPLE_LINES == 4

\* sin and cos are fractions of TrigOne
TrigOne == Pow2(24)

\* the iterations i of the loop over angle that are followed (angle is a
\* float that starts at 0.0f and grows by 0.01f while angle < 2 * M_PI: 629
\* iterations), with cos(angle) and sin(angle) to 24 binary places: the
\* first and the last iteration, the ones on both sides of the quarter
\* turns, and one between two axes
RingTrig ==
    { [i |-> 0,   c |-> 16777216,  s |-> 0],
      [i |-> 79,  c |-> 11808570,  s |-> 11917745],
      [i |-> 157, c |-> 13379,     s |-> 16777211],
      [i |-> 158, c |-> -154391,   s |-> 16776506],
      [i |-> 314, c |-> -16777195, s |-> 26763],
      [i |-> 315, c |-> -16776623, s |-> -141008],
      [i |-> 471, c |-> -39864,    s |-> -16777169],
      [i |-> 472, c |-> 127911,    s |-> -16776728],
      [i |-> 628, c |-> 16777133,  s |-> -52621] }

\* centre + (r * t / TrigOne) as the float x (or y) is assigned
RingFloat(centre, r, t) ==
    LET n == centre * TrigOne + r * t
    IN  IF n < 0 THEN Signed(TRUE, FRound(-n, -24, FALSE))
        ELSE Signed(FALSE, FRound(n, -24, FALSE))

\* the coordinate rounded to the nearest pixel
RingCoordNearest(centre, r, t) ==
    (centre * TrigOne + r * t + (TrigOne \div 2)) \div TrigOne

\* (int)x, (int)y
RingCoord(centre, r, t) == STrunc(RingFloat(centre, r, t))

\* the two circles of a rippleLine: ripple->radius + rippleLine and
\* ripple->radius - rippleLine
RingRadii(radius, line) == { radius + line, radius - line }

\* the pixel a circle of radius r writes at an iteration of the loop over
\* angle: pixel = data + ((int)y * width) + (int)x
RingPixel(slot, bitmap, line, r, t) ==
    LET col == RingCoord(bitmap.width \div 2, r, t.c)
        row == RingCoord(bitmap.height \div 2, r, t.s)
    IN  [slot |-> slot, line |-> line, radius |-> r, i |-> t.i,
         col |-> col, row |-> row, index |-> (row * bitmap.width) + col]

\* the pixels the rings of ripple r (radius already increased) write
RingPixels(slot, r) ==
    { RingPixel(slot, r.bitmap, line, rr, t) :
        <<line, rr, t>> \in
            { <<l, q, u>> \in (0..(RIPPLE_LINES - 1)) \X
                              ((r.radius - RIPPLE_LINES)..(r.radius + RIPPLE_LINES)) \X
                              RingTrig :
                q \in RingRadii(r.radius, l) } }

\* subAlpha of a rippleLine: 1.0f, less 0.2f for each line before it
RECURSIVE SubAlpha(_)
SubAlpha(line) ==
    IF line = 0 THEN FNorm(1, 0) ELSE FSub(SubAlpha(line - 1), FDivInt(1, 5))

\* color = 0x6f6fbf << 8 | (int)((ripple->alpha * 255) * subAlpha)
RingColor(alpha, line) ==
    <<111, 111, 191, FTrunc(FMul(FMulInt(alpha, 255), SubAlpha(line))) % 256>>

\* the colours drawMap paints with: the fill of the buffer (shared with the
\* sprite's display, Gold), the shadow and the fill of a tile
Black == <<0, 0, 0, 255>>
Blue == <<79, 79, 159, 255>>

\* whether drawRect(buffer, x, y, w, h, color) writes the pixel (px, py) of
\* a buffer as wide as the display
DrawRectCovers(x, y, w, h, px, py) ==
    LET w1 == IF x < 0 THEN w + x ELSE w
        x1 == IF x < 0 THEN 0 ELSE x
        h1 == IF y < 0 THEN h + y ELSE h
        y1 == IF y < 0 THEN 0 ELSE y
        w2 == IF x1 + w1 >= DISPLAY_PW THEN DISPLAY_PW - x1 ELSE w1
        h2 == IF y1 + h1 >= DISPLAY_PH THEN DISPLAY_PH - y1 ELSE h1
    IN  px >= x1 /\ px < x1 + w2 /\ py >= y1 /\ py < y1 + h2

\* the pixel (px, py) after the call drawRect(buffer, rect.x, rect.y, rect.w,
\* rect.h, rect.color): applyColor(color, pixel) if the rectangle covers it
DrawRectPixel(dest, rect, px, py) ==
    IF DrawRectCovers(rect.x, rect.y, rect.w, rect.h, px, py)
    THEN applyColor(rect.color, dest)
    ELSE dest

\* the two calls of drawRect of the body of the loops of drawMap for the
\* column i and the row j of the view (pixelX = i * TILESIZE, pixelY =
\* j * TILESIZE): the shadow, then the fill; none if bsearch finds no tile
TileRects(arr, c, i, j) ==
    LET x == c.destTileX - (DISPLAY_TW \div 2) + i
        y == c.destTileY - (DISPLAY_TH \div 2) + j
    IN  IF /\ i <= 2 * (DISPLAY_TW \div 2)
           /\ j <= 2 * (DISPLAY_TH \div 2) + 1
           /\ BSearch(arr, Tile(x, y), 0, MAPLENGTH) # 0
        THEN << [x |-> i * TILESIZE, y |-> j * TILESIZE,
                 w |-> TILESIZE, h |-> TILESIZE, color |-> Black],
                [x |-> (i * TILESIZE) - 2, y |-> (j * TILESIZE) - 2,
                 w |-> TILESIZE - 2, h |-> TILESIZE - 2, color |-> Blue] >>
        ELSE <<>>

\* the calls of drawRect of drawMap that can reach the pixel (px, py), in
\* the order of the loops: those of the tile whose square holds the pixel,
\* of the one right of it, the one below it and the one below and right of it
DrawMapRects(arr, c, px, py) ==
    LET i == px \div TILESIZE
        j == py \div TILESIZE
    IN  TileRects(arr, c, i, j) \o TileRects(arr, c, i + 1, j)
            \o TileRects(arr, c, i, j + 1) \o TileRects(arr, c, i + 1, j + 1)

RECURSIVE DrawRects(_, _, _, _)
\* the pixel (px, py) after the calls rects of drawRect, in their order
DrawRects(dest, rects, px, py) ==
    IF rects = <<>> THEN dest
    ELSE DrawRects(DrawRectPixel(dest, Head(rects), px, py), Tail(rects), px, py)

\* the pixel (px, py) of bgBufferNew after drawMap: the fill, then the tiles
DrawMapPixel(arr, c, px, py) ==
    DrawRects(Gold, DrawMapRects(arr, c, px, py), px, py)

\* the colourkeys as the fill and the shadow of a tile
ColourKeyedTile(dest) == dest = Blue \/ dest = Black

\* *(dest + x) != 0xeb9b34ff && *(dest + x) != 0x000000ff, negated
ColourKeyed(dest) == dest = Gold \/ dest = Black

\* int screenX = (tileX - cam.tileX + (DISPLAY_TW / 2)) * TILESIZE;
\* screenX -= cx; screenX += TILESIZE / 2; screenX -= cam.pixelX;
ScreenPos(tile, camTile, half, size, camPixel) ==
    LET a == (tile - camTile + half) * TILESIZE
        b == STrunc(SSub(SInt(a), SInt(size \div 2)))
    IN  STrunc(SSub(SInt(b + (TILESIZE \div 2)), camPixel))

\* the pixels of the ripple's bitmap that are followed into the frame
\* buffer, as offsets into the bitmap: the corners, the centre, and the
\* pixels of the last rippleLine (no later write changes their colour)
FollowedPixels(r, rings) ==
    LET w == r.bitmap.width
        h == r.bitmap.height
    IN  { 0, w - 1, (h - 1) * w, (h * w) - 1, ((h \div 2) * w) + (w \div 2) }
        \cup { p.index : p \in { q \in rings :
                                   /\ q.line = RIPPLE_LINES - 1
                                   /\ q.index >= 0
                                   /\ q.index < w * h } }

\* the colour of a followed pixel of the bitmap after the rings are drawn
\* on the zeroes of fillBitmap
BitmapPixel(r, rings, index) ==
    IF \E p \in rings : p.index = index
    THEN RingColor(r.alpha, RIPPLE_LINES - 1)
    ELSE Transparent

\* the access of the compositing loops for the pixel src points to: dest + x
\* is display.buffer + (screenY + y) * display.width + screenX + x.  A read
\* outside the buffer is undefined: keyed says whether the word read
\* equalled a colourkey (the sets of one element name the pixel read from
\* the bitmap and the one read from the frame buffer)
CompositeAccess(slot, r, rings, arr, c, index, keyed) ==
    LET x       == index % r.bitmap.width
        y       == index \div r.bitmap.width
        screenX == ScreenPos(r.tileX, c.tileX, DISPLAY_TW \div 2, r.bitmap.width, c.pixelX)
        screenY == ScreenPos(r.tileY, c.tileY, DISPLAY_TH \div 2, r.bitmap.height, c.pixelY)
        offset  == ((screenY + y) * DISPLAY_PW) + screenX + x
        inside  == offset >= 0 /\ offset < DISPLAY_PW * DISPLAY_PH
        read    == IF inside
                   THEN DrawMapPixel(arr, c, offset % DISPLAY_PW, offset \div DISPLAY_PW)
                   ELSE Transparent
    IN  CHOOSE access \in
            { [slot |-> slot, x |-> x, y |-> y,
               col |-> screenX + x, row |-> screenY + y, offset |-> offset,
               inside |-> inside, src |-> src, before |-> before,
               written |-> IF inside THEN ~ColourKeyed(before) ELSE ~keyed,
               after |-> IF inside /\ ~ColourKeyed(before)
                         THEN applyColor(src, before) ELSE before] :
                src \in {BitmapPixel(r, rings, index)}, before \in {read} } :
            TRUE

\* the followed accesses of the compositing of ripple r, whose rings wrote
\* the pixels rings
Composited(slot, r, rings, arr, c, keyed) ==
    { CompositeAccess(slot, r, rings, arr, c, index, keyed) :
        index \in FollowedPixels(r, rings) }

\* a ripple spawned while no other one is active: the ripples are followed
\* one at a time
SpawnDrawn ==
    /\ ActiveSlots(rippleArray) = {}
    /\ Spawn
    /\ UNCHANGED <<ringPixels, composited>>

\* animateRipple on the frame buffer of a camera at rest (drawBackground
\* has copied bgBufferNew into it), with the rings and the compositing of
\* every active ripple; a call that finds no active ripple draws nothing
\* and is not followed
animateRippleDrawn ==
    \E keyed \in BOOLEAN :
        LET actives == ActiveSlots(rippleArray)
        IN  /\ actives # {}
            /\ animateRipple
            /\ ringPixels' =
                   UNION { RingPixels(i, Animated(rippleArray[i])) : i \in actives }
            /\ composited' =
                   UNION { Composited(i, Animated(rippleArray[i]),
                                      { p \in ringPixels' : p.slot = i },
                                      tileArray, cam, keyed) : i \in actives }

IdleDraw ==
    /\ ringPixels = {}
    /\ composited = {}

---------------------------------------------------------------------------
(* The frame loop of main *)

\* the number of iterations of the loop a run is followed for
MaxFrames == 5

\* a snapshot of the keys: key_r spawns a ripple, key_q ends the loop; the
\* arrow keys, z and x stay up here, so that the player rests on its tile
Inputs == [key_r : {0, 1}, key_q : {0, 1}]

\* Input newInput, oldInput: globals, zero at startup
NoInput == [key_r |-> 0, key_q |-> 0]

\* the key tested by its level alone
KeyPressedLevel(new, old) == new.key_r # 0

\* newInput.key_r && !oldInput.key_r
KeyPressed(new, old) == new.key_r # 0 /\ ~(old.key_r # 0)

\* the statements of the body of the loop, in the order main has them
FrameOrder ==
    <<"getInput", "processInput", "updatePlayer", "updateCamera",
      "drawBackground", "animateRipple", "drawPlayer", "blitDisplay",
      "loopEnd">>

PhaseAfter(order, phase) ==
    LET i == CHOOSE k \in 1..Len(order) : order[k] = phase
    IN  order[(i % Len(order)) + 1]

\* blitDisplay ahead of drawPlayer
NextPhasePresentEarly(phase) ==
    PhaseAfter(<<"getInput", "processInput", "updatePlayer", "updateCamera",
                 "drawBackground", "animateRipple", "blitDisplay",
                 "drawPlayer", "loopEnd">>, phase)

\* the statement that follows a statement of the body
NextPhase(phase) == PhaseAfter(FrameOrder, phase)

\* getInput: the snapshot of the keyboard of this frame
getInput ==
    /\ pcFrame = "getInput"
    /\ frameCount < frameBudget
    /\ \E in \in Inputs :
          /\ newInput' = in
          /\ heldFrames' = IF in.key_r # 0 THEN heldFrames + 1 ELSE 0
          /\ heldSpawns' = IF in.key_r # 0 THEN heldSpawns ELSE 0
    /\ loopCount' = loopCount + 1
    /\ phaseLog' = <<"getInput">>
    /\ pcFrame' = NextPhase("getInput")
    /\ UNCHANGED <<oldInput, running, displayLayers, presented, presentCount,
                   spawnedNow>>
    /\ UNCHANGED <<rippleVars, camVars>>

processInput ==
    /\ pcFrame = "processInput"
    /\ running' = IF newInput.key_q # 0 THEN 0 ELSE running
    /\ IF KeyPressed(newInput, oldInput)
       THEN /\ initRipple(10, 10)
            /\ spawnedNow' = TRUE
            /\ heldSpawns' = heldSpawns + 1
       ELSE /\ spawnedNow' = FALSE
            /\ UNCHANGED <<heldSpawns, rippleVars>>
    /\ phaseLog' = Append(phaseLog, "processInput")
    /\ pcFrame' = NextPhase("processInput")
    /\ UNCHANGED <<newInput, oldInput, loopCount, displayLayers, presented,
                   presentCount, heldFrames>>
    /\ UNCHANGED camVars

\* updatePlayer with the player at rest and no arrow key, z or x down: no
\* field of player changes
FrameUpdatePlayer ==
    /\ pcFrame = "updatePlayer"
    /\ pcCam = "updatePlayer"
    /\ pcCam' = "updateCamera"
    /\ phaseLog' = Append(phaseLog, "updatePlayer")
    /\ pcFrame' = NextPhase("updatePlayer")
    /\ UNCHANGED <<cam, camPrev, camAge, drawMapCalls, playerX, playerY,
                   bgBufferOld, bgBufferNew, frameProbes>>
    /\ UNCHANGED <<newInput, oldInput, running, loopCount, displayLayers,
                   presented, presentCount, spawnedNow, heldFrames,
                   heldSpawns>>
    /\ UNCHANGED rippleVars

FrameUpdateCamera ==
    /\ pcFrame = "updateCamera"
    /\ updateCamera
    /\ phaseLog' = Append(phaseLog, "updateCamera")
    /\ pcFrame' = NextPhase("updateCamera")
    /\ UNCHANGED <<newInput, oldInput, running, loopCount, displayLayers,
                   presented, presentCount, spawnedNow, heldFrames,
                   heldSpawns>>
    /\ UNCHANGED rippleVars

\* drawBackground writes every pixel of display.buffer
FrameDrawBackground ==
    /\ pcFrame = "drawBackground"
    /\ drawBackground
    /\ displayLayers' = <<"background">>
    /\ phaseLog' = Append(phaseLog, "drawBackground")
    /\ pcFrame' = NextPhase("drawBackground")
    /\ UNCHANGED <<newInput, oldInput, running, loopCount, presented,
                   presentCount, spawnedNow, heldFrames, heldSpawns>>
    /\ UNCHANGED rippleVars

\* animateRipple draws the active ripples onto display.buffer
FrameAnimateRipple ==
    /\ pcFrame = "animateRipple"
    /\ animateRipple
    /\ displayLayers' = Append(displayLayers, "ripples")
    /\ phaseLog' = Append(phaseLog, "animateRipple")
    /\ pcFrame' = NextPhase("animateRipple")
    /\ UNCHANGED <<newInput, oldInput, running, loopCount, presented,
                   presentCount, spawnedNow, heldFrames, heldSpawns>>
    /\ UNCHANGED camVars

\* drawPlayer draws the player's bitmap onto display.buffer
drawPlayer ==
    /\ pcFrame = "drawPlayer"
    /\ displayLayers' = Append(displayLayers, "player")
    /\ phaseLog' = Append(phaseLog, "drawPlayer")
    /\ pcFrame' = NextPhase("drawPlayer")
    /\ UNCHANGED <<newInput, oldInput, running, loopCount, presented,
                   presentCount, spawnedNow, heldFrames, heldSpawns>>
    /\ UNCHANGED <<rippleVars, camVars>>

\* blitDisplay hands display.buffer to the renderer and presents it
blitDisplay ==
    /\ pcFrame = "blitDisplay"
    /\ presented' = displayLayers
    /\ presentCount' = presentCount + 1
    /\ phaseLog' = Append(phaseLog, "blitDisplay")
    /\ pcFrame' = NextPhase("blitDisplay")
    /\ UNCHANGED <<newInput, oldInput, running, loopCount, displayLayers,
                   spawnedNow, heldFrames, heldSpawns>>
    /\ UNCHANGED <<rippleVars, camVars>>

\* oldInput = newInput, the sleep to the frame rate (which changes no
\* state of the program), and the test of while (running)
LoopEnd ==
    /\ pcFrame = "loopEnd"
    /\ oldInput' = newInput
    /\ phaseLog' = Append(phaseLog, "loopEnd")
    /\ pcFrame' = IF running # 0 THEN NextPhase("loopEnd") ELSE "exit"
    /\ UNCHANGED <<newInput, running, loopCount, displayLayers, presented,
                   presentCount, spawnedNow, heldFrames, heldSpawns>>
    /\ UNCHANGED <<rippleVars, camVars>>

\* main before its loop: running = 1, both snapshots zero, nothing drawn
FrameStart ==
    /\ newInput = NoInput
    /\ oldInput = NoInput
    /\ running = 1
    /\ phaseLog = <<>>
    /\ loopCount = 0
    /\ displayLayers = <<>>
    /\ presented = <<>>
    /\ presentCount = 0
    /\ spawnedNow = FALSE
    /\ heldFrames = 0
    /\ heldSpawns = 0

IdleFrame ==
    /\ FrameStart
    /\ pcFrame = "idle"

---------------------------------------------------------------------------
(* Specifications *)

InitBlend ==
    /\ bDest \in DestColors
    /\ bSrc = Transparent
    /\ bPrev = Transparent
    /\ bRaw = <<0, 0, 0>>
    /\ bCount = 0
    /\ IdleRot
    /\ IdleMap
    /\ IdleRipple
    /\ IdleSprite
    /\ IdleCam
    /\ IdleFrame
    /\ PlayerIdle
    /\ IdleDraw

NextBlend == ApplyColorStep /\ UNCHANGED <<rotVars, mapVars, rippleVars, spriteVars, camVars, frameVars,
          playerVars, drawVars>>

SpecBlend == InitBlend /\ [][NextBlend]_vars

InitRotate ==
    /\ rBitmap \in InputBitmaps
    /\ rPrev = EmptyBitmap
    /\ rTrig = Angle0
    /\ rTrigPrev = Angle0
    /\ rReads = {}
    /\ rWrites = {}
    /\ rCount = 0
    /\ IdleBlend
    /\ IdleMap
    /\ IdleRipple
    /\ IdleSprite
    /\ IdleCam
    /\ IdleFrame
    /\ PlayerIdle
    /\ IdleDraw

NextRotate == RotateStep /\ UNCHANGED <<blendVars, mapVars, rippleVars, spriteVars, camVars, frameVars,
          playerVars, drawVars>>

SpecRotate == InitRotate /\ [][NextRotate]_vars

\* the state in which main calls initMap: tileArray holds no entry yet
InitMap ==
    /\ tileArray = <<>>
    /\ pcMap = "walk"
    /\ wx = 0 /\ wy = 0 /\ wr2 = 0 /\ wi = 0
    /\ qx = 0 /\ qy = 0 /\ qres = -1
    /\ IdleBlend
    /\ IdleRot
    /\ IdleRipple
    /\ IdleSprite
    /\ IdleCam
    /\ IdleFrame
    /\ PlayerIdle
    /\ IdleDraw

NextMap ==
    \/ WalkStep /\ UNCHANGED <<blendVars, rotVars, rippleVars, spriteVars, camVars, frameVars,
          playerVars, drawVars>>
    \/ SortStep /\ UNCHANGED <<blendVars, rotVars, rippleVars, spriteVars, camVars, frameVars,
          playerVars, drawVars>>
    \/ Query /\ UNCHANGED <<blendVars, rotVars, rippleVars, spriteVars, camVars, frameVars,
          playerVars, drawVars>>

SpecMap == InitMap /\ [][NextMap]_vars

\* the pool as the program starts with it
InitRipple ==
    /\ PoolStart
    /\ \/ spawnBudget = MaxSpawns /\ frameBudget = MaxBurstFrames
       \/ spawnBudget = MaxLifeSpawns /\ frameBudget = MaxLifeFrames
    /\ IdleBlend
    /\ IdleRot
    /\ IdleMap
    /\ IdleSprite
    /\ IdleCam
    /\ IdleFrame
    /\ PlayerIdle
    /\ IdleDraw

NextRipple ==
    \/ Spawn /\ UNCHANGED <<blendVars, rotVars, mapVars, spriteVars, camVars, frameVars,
          playerVars, drawVars>>
    \/ animateRipple /\ UNCHANGED <<blendVars, rotVars, mapVars, spriteVars, camVars, frameVars,
          playerVars, drawVars>>

SpecRipple == InitRipple /\ [][NextRipple]_vars

\* the state in which a frame calls drawBitmap: the background is painted
InitSprite ==
    /\ sBitmap \in SpriteBitmaps
    /\ sX \in SpriteXs
    /\ sY \in SpriteYs
    /\ sTrig \in SpriteTrigs
    /\ sScale \in Scales
    /\ sScaled = EmptyBitmap
    /\ sScaleReads = {}
    /\ sRotated = EmptyBitmap
    /\ sRect = [x1 |-> 0, y1 |-> 0, x2 |-> 0, y2 |-> 0, xoff |-> 0, yoff |-> 0]
    /\ sReads = {}
    /\ sWrites = {}
    /\ sDisplay = BlankDisplay
    /\ sDisplayPrev = BlankDisplay
    /\ sLive = {}
    /\ sNextHandle = 1
    /\ sCount = 0
    /\ IdleBlend
    /\ IdleRot
    /\ IdleMap
    /\ IdleRipple
    /\ IdleCam
    /\ IdleFrame
    /\ PlayerIdle
    /\ IdleDraw

NextSprite ==
    drawBitmap /\ UNCHANGED <<blendVars, rotVars, mapVars, rippleVars, camVars, frameVars,
          playerVars, drawVars>>

SpecSprite == InitSprite /\ [][NextSprite]_vars

\* the first frame of main's loop, at updatePlayer
InitCamera ==
    /\ CameraStart
    /\ pcCam = "updatePlayer"
    /\ IdleBlend
    /\ IdleRot
    /\ IdleMap
    /\ IdleRipple
    /\ IdleSprite
    /\ IdleFrame
    /\ PlayerIdle
    /\ IdleDraw

NextCamera ==
    \/ PlayerTileStep
         /\ UNCHANGED <<blendVars, rotVars, mapVars, rippleVars, spriteVars,
                        frameVars, playerVars, drawVars>>
    \/ updateCamera
         /\ UNCHANGED <<blendVars, rotVars, mapVars, rippleVars, spriteVars,
                        frameVars, playerVars, drawVars>>
    \/ drawBackground
         /\ UNCHANGED <<blendVars, rotVars, mapVars, rippleVars, spriteVars,
                        frameVars, playerVars, drawVars>>

SpecCamera == InitCamera /\ [][NextCamera]_vars

InitFrame ==
    /\ FrameStart
    /\ pcFrame = "getInput"
    /\ CameraStart
    /\ pcCam = "updatePlayer"
    /\ PoolStart
    /\ spawnBudget = MaxFrames
    /\ frameBudget = MaxFrames
    /\ IdleBlend
    /\ IdleRot
    /\ IdleMap
    /\ IdleSprite
    /\ PlayerIdle
    /\ IdleDraw

NextFrame ==
    \/ getInput /\ UNCHANGED <<blendVars, rotVars, mapVars, spriteVars,
                                     playerVars, drawVars>>
    \/ processInput /\ UNCHANGED <<blendVars, rotVars, mapVars, spriteVars,
                                     playerVars, drawVars>>
    \/ FrameUpdatePlayer /\ UNCHANGED <<blendVars, rotVars, mapVars, spriteVars,
                                     playerVars, drawVars>>
    \/ FrameUpdateCamera /\ UNCHANGED <<blendVars, rotVars, mapVars, spriteVars,
                                     playerVars, drawVars>>
    \/ FrameDrawBackground /\ UNCHANGED <<blendVars, rotVars, mapVars, spriteVars,
                                     playerVars, drawVars>>
    \/ FrameAnimateRipple /\ UNCHANGED <<blendVars, rotVars, mapVars, spriteVars,
                                     playerVars, drawVars>>
    \/ drawPlayer /\ UNCHANGED <<blendVars, rotVars, mapVars, spriteVars,
                                     playerVars, drawVars>>
    \/ blitDisplay /\ UNCHANGED <<blendVars, rotVars, mapVars, spriteVars,
                                     playerVars, drawVars>>
    \/ LoopEnd /\ UNCHANGED <<blendVars, rotVars, mapVars, spriteVars,
                                     playerVars, drawVars>>

SpecFrame == InitFrame /\ [][NextFrame]_vars

InitPlayer ==
    /\ PlayerIdle
    /\ IdleDraw
    /\ tileArray \in PlayerMaps
    /\ pcMap = "generated"
    /\ wx = 0 /\ wy = 0 /\ wr2 = 0 /\ wi = 0
    /\ qx = 0 /\ qy = 0 /\ qres = -1
    /\ PoolStart
    /\ spawnBudget = MaxPlayerMoves
    /\ frameBudget = 0
    /\ IdleBlend
    /\ IdleRot
    /\ IdleSprite
    /\ IdleCam
    /\ IdleFrame

NextPlayer ==
    updatePlayer
        /\ UNCHANGED <<blendVars, rotVars, mapVars, spriteVars, camVars,
                       frameVars, drawVars>>

SpecPlayer == InitPlayer /\ [][NextPlayer]_vars

\* the drawing of the ripples: a generated map, the camera and the player at
\* rest on (0, 0), the frame buffer holding the view drawMap painted
InitRippleDraw ==
    /\ IdleDraw
    /\ PoolStart
    /\ spawnBudget = MaxDrawSpawns
    /\ frameBudget = MaxDrawFrames
    /\ tileArray \in PlayerMaps
    /\ pcMap = "generated"
    /\ wx = 0 /\ wy = 0 /\ wr2 = 0 /\ wi = 0
    /\ qx = 0 /\ qy = 0 /\ qres = -1
    /\ IdleBlend
    /\ IdleRot
    /\ IdleSprite
    /\ IdleCam
    /\ IdleFrame
    /\ PlayerIdle

NextRippleDraw ==
    \/ SpawnDrawn /\ UNCHANGED <<blendVars, rotVars, mapVars, spriteVars, camVars,
          frameVars, playerVars>>
    \/ animateRippleDrawn /\ UNCHANGED <<blendVars, rotVars, mapVars, spriteVars,
          camVars, frameVars, playerVars>>

SpecRippleDraw == InitRippleDraw /\ [][NextRippleDraw]_vars

---------------------------------------------------------------------------
(* applyColor: properties, checked under SpecBlend *)

RGB(c) == <<c[1], c[2], c[3]>>

\* C6 as claimed: a source with alpha 0 leaves all 32 bits of dest unchanged
C6_TransparentLeavesDestUnchanged ==
    (bCount > 0 /\ Alpha(bSrc) = 0) => bDest = bPrev

\* C6, amended: a source with alpha 0 leaves the R, G and B bytes of dest
\* unchanged and sets the alpha byte of dest to 0, the alpha of the source
C6_TransparentKeepsRGBTakesAlpha ==
    (bCount > 0 /\ Alpha(bSrc) = 0) =>
        /\ RGB(bDest) = RGB(bPrev)
        /\ Alpha(bDest) = 0

C6_Witness ==
    /\ bCount > 0
    /\ Alpha(bSrc) = 0
    /\ Alpha(bPrev) = 255
    /\ RGB(bSrc) # RGB(bPrev)
    /\ RGB(bDest) = <<235, 155, 52>>

\* C7: a source with alpha 255 sets dest to exactly the source, R, G, B and
\* alpha
C7_OpaqueReplacesDest ==
    (bCount > 0 /\ Alpha(bSrc) = 255) => bDest = bSrc

C7_Witness ==
    /\ bCount > 0
    /\ Alpha(bSrc) = 255
    /\ Alpha(bPrev) # 255
    /\ RGB(bPrev) # RGB(bSrc)
    /\ bDest = <<79, 79, 159, 255>>

\* round((1 - t) * d + t * s) for t = alpha / 255, in exact arithmetic
RoundExact(alpha, d, s) ==
    (2 * ((255 - alpha) * d + alpha * s) + 255) \div 510

\* C8: each of the R, G, B results is (1 - t) * dest + t * src rounded to
\* the nearest integer, and lies in 0..255
C8_ChannelsRoundedToNearest ==
    bCount > 0 =>
        \A k \in 1..3 :
            /\ bRaw[k] = RoundExact(Alpha(bSrc), bPrev[k], bSrc[k])
            /\ bRaw[k] \in 0..255

---------------------------------------------------------------------------
(* rotateBitmap: properties, checked under SpecRotate *)

PixelAt(bitmap, x, y) == bitmap.data[y * bitmap.width + x + 1]

SameSize(a, b) ==
    /\ a.width = b.width
    /\ a.height = b.height
    /\ Len(a.data) = a.width * a.height

OnBorder(bitmap, x, y) ==
    x = 0 \/ y = 0 \/ x = bitmap.width - 1 \/ y = bitmap.height - 1

C10_RotateInBounds ==
    rCount > 0 =>
        /\ SameSize(rBitmap, rPrev)
        /\ \A off \in rReads : InBounds(rPrev, off)
        /\ \A off \in rWrites : InBounds(rBitmap, off)

C10_Witness ==
    /\ rCount = 2
    /\ rTrig = Negated(rTrigPrev)
    /\ rTrig.s # 0
    /\ rTrig.c # 0
    /\ rPrev.width # rPrev.height
    /\ Cardinality(rReads) > 4
    /\ rWrites # {}

\* C30: for every angle and every bitmap size, non-square ones included,
\* the mapping of rotateBitmap from destination to source is a rotation
\* about the centre on both axes: for the destination pixel (w / 2, h / 2)
\* the source point (rx, ry) is (w / 2, h / 2)
C30_CentreIsFixed ==
    rCount > 0 =>
        LET w == rPrev.width
            h == rPrev.height
        IN  /\ RxNum(w, h, w \div 2, h \div 2, rTrig) = (w \div 2) * TRIG_DEN
            /\ RyNum(w, h, w \div 2, h \div 2, rTrig) = (h \div 2) * TRIG_DEN

---------------------------------------------------------------------------
(* The tile world: properties, checked under SpecMap *)

Generated(x, y) == \E p \in 1..Len(tileArray) : tileArray[p].x = x /\ tileArray[p].y = y

\* C1: borderCollide(x, y) returns 0 (walkable) if and only if (x, y) is one
\* of the generated tiles, for coordinates inside and outside the bounding box
C1_WalkableIffGenerated ==
    (pcMap = "generated" /\ qres # -1) => (qres = 0 <=> Generated(qx, qy))

\* C2: when initMap has returned, tileArray holds exactly MAPLENGTH entries
\* with pairwise distinct (x, y), each with flatCoord = y * MAPWIDTH + x, in
\* ascending order of flatCoord
C2_GeneratedArraySortedDistinct ==
    pcMap = "generated" =>
        /\ Len(tileArray) = MAPLENGTH
        /\ \A p, q \in 1..Len(tileArray) :
              (tileArray[p].x = tileArray[q].x /\ tileArray[p].y = tileArray[q].y)
                  => p = q
        /\ \A p \in 1..Len(tileArray) :
              tileArray[p].flatCoord = tileArray[p].y * MAPWIDTH + tileArray[p].x
        /\ \A p \in 1..(Len(tileArray) - 1) :
              tileArray[p].flatCoord <= tileArray[p + 1].flatCoord

\* a generated map of a walk that left the box on the low side and was put
\* on the high side
C2_Witness ==
    /\ pcMap = "generated"
    /\ Len(tileArray) = MAPLENGTH
    /\ Generated(mapMinX, 0)
    /\ Generated(mapMaxX, 0)
    /\ tileArray[1].flatCoord < tileArray[MAPLENGTH].flatCoord

\* C26: no two distinct tiles of the generated array have the same key: the
\* map (x, y) -> y * MAPWIDTH + x is injective on the generated set, and the
\* sorted array is strictly ascending by key
C26_FlatCoordInjective ==
    /\ \A p, q \in 1..Len(tileArray) :
          tileArray[p].flatCoord = tileArray[q].flatCoord => p = q
    /\ pcMap = "generated" =>
          \A p \in 1..(Len(tileArray) - 1) :
              tileArray[p].flatCoord < tileArray[p + 1].flatCoord

Adjacent(a, b) ==
    \/ a.x = b.x /\ (a.y = b.y + 1 \/ a.y = b.y - 1)
    \/ a.y = b.y /\ (a.x = b.x + 1 \/ a.x = b.x - 1)

\* C29: the generated tile set is 4-connected: before the sort, while the
\* array is in the order of the walk, every recorded tile other than the
\* first, (0, 0), is horizontally or vertically adjacent to a tile recorded
\* before it, also in walks that hit the bounding box
C29_WalkIsConnected ==
    pcMap \in {"walk", "sort"} =>
        /\ Len(tileArray) > 0 => (tileArray[1].x = 0 /\ tileArray[1].y = 0)
        /\ \A p \in 2..Len(tileArray) :
              \E q \in 1..(p - 1) : Adjacent(tileArray[p], tileArray[q])

---------------------------------------------------------------------------
(* The ripple pool: properties, checked under SpecRipple *)

Owned(h) == \E i \in Slots : rippleArray[i].bitmap.data = h

\* C3: a spawn that overwrites a slot releases the slot's previous bitmap, so
\* every allocated and unreleased ripple bitmap belongs to a slot and there
\* are never more than 5 of them
C3_NoLeakOnOverwrite ==
    /\ \A h \in heapLive : Owned(h)
    /\ Cardinality(heapLive) <= POOL_SIZE

Spawned(i) == rippleArray[i].bitmap.data # 0

\* C5 as claimed: a ripple is still active after 27 calls of animateRipple
\* and inactive from the 28th call on
C5_InactiveAtCall28 ==
    \A i \in Slots :
        Spawned(i) =>
            /\ rippleAge[i] <= 27 => rippleArray[i].active = 1
            /\ rippleAge[i] >= 28 => rippleArray[i].active = 0

\* C5, amended: a ripple is still active after 26 calls of animateRipple and
\* becomes inactive in exactly the 27th call, when its radius first reaches
\* (100 - 5) / 2 = 47 (an integer division)
C5_InactiveAtCall27 ==
    \A i \in Slots :
        Spawned(i) =>
            /\ rippleAge[i] <= 26 =>
                  /\ rippleArray[i].active = 1
                  /\ rippleArray[i].radius = RIPPLE_RADIUS + rippleAge[i]
                  /\ rippleArray[i].radius < 47
            /\ rippleAge[i] >= 27 =>
                  /\ rippleArray[i].active = 0
                  /\ rippleArray[i].radius = 47

C5_Witness ==
    \E i \in Slots :
        /\ Spawned(i)
        /\ rippleAge[i] = 27
        /\ frameCount > 27
        /\ rippleArray[i].active = 0
        /\ rippleArray[i].radius = 47
        /\ rippleArray[i].bitmap.data \in heapFreed

---------------------------------------------------------------------------
(* The sprite compositor: properties, checked under SpecSprite *)

\* C11: for a bitmap with width > 0 and height > 0, scaleBitmap with scale
\* 1.0 returns a bitmap of the same width and height whose every pixel
\* equals the input pixel at the same position
C11_ScaleOneIsIdentity ==
    (sCount > 0 /\ sScale = Scale1 /\ sBitmap.width > 0 /\ sBitmap.height > 0) =>
        /\ sScaled.width = sBitmap.width
        /\ sScaled.height = sBitmap.height
        /\ Len(sScaled.data) = sBitmap.width * sBitmap.height
        /\ \A x \in 0..(sBitmap.width - 1), y \in 0..(sBitmap.height - 1) :
              PixelAt(sScaled, x, y) = PixelAt(sBitmap, x, y)
        /\ \A off \in sScaleReads : InBounds(sBitmap, off)

C11_Witness ==
    /\ sCount > 0
    /\ sScale = Scale1
    /\ sBitmap.width = 4
    /\ sBitmap.height = 3
    /\ PixelAt(sScaled, 0, 0) = White
    /\ PixelAt(sScaled, 0, 1) = <<255, 10, 20, 30>>
    /\ PixelAt(sScaled, 3, 2) = <<64, 255, 0, 128>>

\* C15: every call of drawBitmap frees every intermediate bitmap it
\* allocated before it returns, also for an angle within 0.1 rad of pi, so
\* no intermediate bitmap is live at the end of a frame
C15_IntermediatesReleased == sLive = {}

\* the unclipped destination rectangle: the scaled bitmap centred on the
\* bitmap placed at (x, y)
DestX1 == sX + CDiv(sBitmap.width - sScaled.width, 2)
DestY1 == sY + CDiv(sBitmap.height - sScaled.height, 2)
InDestRect(x, y) ==
    /\ x >= DestX1 /\ x < DestX1 + sScaled.width
    /\ y >= DestY1 /\ y < DestY1 + sScaled.height
InFrame(x, y) ==
    x >= 0 /\ x < SpriteDisplayW /\ y >= 0 /\ y < SpriteDisplayH
DestRectOutside ==
    \A x \in DestX1..(DestX1 + sScaled.width - 1),
       y \in DestY1..(DestY1 + sScaled.height - 1) : ~InFrame(x, y)

\* C16: drawBitmap writes only frame-buffer pixels of the destination
\* rectangle clipped to the frame buffer (indices within the width * height
\* pixels of the buffer), reads only pixels inside the rotated bitmap, leaves
\* every other frame-buffer pixel unchanged, and writes no pixel when the
\* destination rectangle lies entirely outside the frame buffer
C16_DrawClipsToFrame ==
    sCount > 0 =>
        /\ \A o \in sWrites :
              /\ o >= 0 /\ o < SpriteDisplayW * SpriteDisplayH
              /\ InDestRect(o % SpriteDisplayW, o \div SpriteDisplayW)
        /\ \A o \in sReads : InBounds(sRotated, o)
        /\ Len(sDisplay) = SpriteDisplayW * SpriteDisplayH
        /\ \A o \in 1..Len(sDisplay) :
              (o - 1) \notin sWrites => sDisplay[o] = sDisplayPrev[o]
        /\ DestRectOutside => (sWrites = {} /\ sReads = {} /\ sDisplay = sDisplayPrev)

\* a sprite wider than the display, clipped on the left, the top and the
\* right
C16_Witness ==
    /\ sCount > 0
    /\ sRect.xoff > 0
    /\ sRect.yoff > 0
    /\ sRect.x2 = SpriteDisplayW
    /\ DestX1 + sScaled.width > SpriteDisplayW
    /\ Cardinality(sWrites) = SpriteDisplayW * sRect.y2
    /\ sRect.y2 < SpriteDisplayH
    /\ \E o \in 1..Len(sDisplay) : sDisplay[o] # sDisplayPrev[o]

---------------------------------------------------------------------------
(* The camera and the renderer: properties, checked under SpecCamera *)

\* the position in the old buffer's coordinates of the frame-buffer pixel p
PosX(p) == p[1] + STrunc(cam.pixelX)
PosY(p) == p[2] + STrunc(cam.pixelY)
NewAt(x, y) == [buffer |-> "new", offset |-> (y * DISPLAY_PW) + x, view |-> bgBufferNew]
OldAt(x, y) == [buffer |-> "old", offset |-> (y * DISPLAY_PW) + x, view |-> bgBufferOld]

\* C12: while a scroll is in progress drawBackground fills the frame-buffer
\* pixel (i, j) from the position (x, y) = (i + trunc(cam.pixelX),
\* j + trunc(cam.pixelY)): for x < 0 from the new buffer at (x + SCROLL_PW,
\* y), for x >= DISPLAY_PW from the new buffer at (x - SCROLL_PW, y), for
\* y < 0 from the new buffer at (x, y + SCROLL_PH), for y >= DISPLAY_PH from
\* the new buffer at (x, y - SCROLL_PH), otherwise from the old buffer at
\* (x, y); the position x = -1 reads the new buffer at x = -1 + SCROLL_PW
C12_ScrollReadsWrapIntoNew ==
    (pcCam # "drawBackground" /\ ~Stationary(cam)) =>
        \A p \in DOMAIN frameProbes :
            /\ PosX(p) < 0 => frameProbes[p] = NewAt(PosX(p) + SCROLL_PW, PosY(p))
            /\ PosX(p) >= DISPLAY_PW =>
                  frameProbes[p] = NewAt(PosX(p) - SCROLL_PW, PosY(p))
            /\ (PosX(p) >= 0 /\ PosX(p) < DISPLAY_PW /\ PosY(p) < 0) =>
                  frameProbes[p] = NewAt(PosX(p), PosY(p) + SCROLL_PH)
            /\ (PosX(p) >= 0 /\ PosX(p) < DISPLAY_PW /\ PosY(p) >= DISPLAY_PH) =>
                  frameProbes[p] = NewAt(PosX(p), PosY(p) - SCROLL_PH)
            /\ (PosX(p) >= 0 /\ PosX(p) < DISPLAY_PW
                  /\ PosY(p) >= 0 /\ PosY(p) < DISPLAY_PH) =>
                  frameProbes[p] = OldAt(PosX(p), PosY(p))
            /\ PosX(p) = -1 =>
                  /\ frameProbes[p].buffer = "new"
                  /\ frameProbes[p].offset = (PosY(p) * DISPLAY_PW) + (SCROLL_PW - 1)

\* a scroll to the left near its midpoint: the position x = -1 is read from
\* the new buffer, painted around the destination, the position x = 0 from
\* the old one
C12_Witness ==
    /\ pcCam = "updatePlayer"
    /\ cam.destTileX = cam.tileX - SCROLL_TW
    /\ STrunc(cam.pixelX) < -(SCROLL_PW \div 2) + TILESIZE
    /\ STrunc(cam.pixelX) > -(SCROLL_PW \div 2) - TILESIZE
    /\ bgBufferNew = View(-SCROLL_TW, 0)
    /\ bgBufferOld = View(0, 0)
    /\ \E p, q \in DOMAIN frameProbes :
          /\ PosX(p) = -1
          /\ frameProbes[p] = NewAt(SCROLL_PW - 1, PosY(p))
          /\ PosX(q) = 0
          /\ q[2] = p[2]
          /\ frameProbes[q] = OldAt(0, PosY(q))

\* C13: when the camera's tile equals its destination tile, its pixel
\* offset and its velocity are zero on both axes; and the tile and the
\* destination tile never differ on both axes at once
C13_StationaryAtRestOneAxis ==
    /\ Stationary(cam) =>
          /\ cam.pixelX = SZero /\ cam.pixelY = SZero
          /\ cam.velocityX = SZero /\ cam.velocityY = SZero
    /\ ~(cam.tileX # cam.destTileX /\ cam.tileY # cam.destTileY)

\* the camera at rest after a scroll to the east, the player beyond the
\* margin on both axes, and the scroll that starts from there
C13_Witness ==
    /\ pcCam = "drawBackground"
    /\ Stationary(camPrev)
    /\ camPrev.tileX = SCROLL_TW
    /\ camPrev.pixelX = SZero
    /\ playerX - camPrev.tileX < -HorizEdge
    /\ playerY - camPrev.tileY >= VertEdge
    /\ cam.destTileX = 0
    /\ cam.destTileY = cam.tileY

\* C14: after startup drawMap is executed in a frame if and only if the
\* camera goes from stationary to scrolling in that frame: once per scroll,
\* in the first frame of the scroll, and neither in a frame in which the
\* camera is already scrolling nor in one in which it stays stationary
C14_DrawMapOncePerScroll ==
    /\ drawMapCalls \in {0, 1}
    /\ drawMapCalls = 1 <=> (Stationary(camPrev) /\ ~Stationary(cam))
    /\ drawMapCalls = 1 <=> camAge = 1
    /\ ~Stationary(camPrev) => drawMapCalls = 0
    /\ (Stationary(camPrev) /\ Stationary(cam)) => drawMapCalls = 0

\* the first frame of a second scroll: the old buffer holds the view the
\* first scroll painted
C14_Witness ==
    /\ drawMapCalls = 1
    /\ camAge = 1
    /\ Stationary(camPrev)
    /\ camPrev.tileX = SCROLL_TW
    /\ bgBufferOld = View(SCROLL_TW, 0)
    /\ bgBufferNew = View(SCROLL_TW, SCROLL_TH)

\* C21: at every frame boundary the new buffer holds the view rendered
\* around the camera's destination tile; while a scroll is in progress the
\* old buffer holds the view rendered around the camera's current tile; and
\* when the camera is stationary every pixel drawBackground wrote to the
\* frame buffer is the pixel of the new buffer at the same offset
C21_BuffersHoldViews ==
    /\ bgBufferNew = View(cam.destTileX, cam.destTileY)
    /\ ~Stationary(cam) => bgBufferOld = View(cam.tileX, cam.tileY)
    /\ (pcCam = "updatePlayer" /\ Stationary(cam)) =>
          \A p \in DOMAIN frameProbes :
              frameProbes[p] = [buffer |-> "new",
                                offset |-> (p[2] * DISPLAY_PW) + p[1],
                                view   |-> bgBufferNew]

\* the frame boundary after a scroll to the west has completed: the new
\* buffer holds the view around the tile reached, the old one the view that
\* was scrolled away from, the frame buffer the new one
C21_Witness ==
    /\ pcCam = "updatePlayer"
    /\ Stationary(cam)
    /\ cam.tileX = -SCROLL_TW
    /\ bgBufferNew = View(-SCROLL_TW, 0)
    /\ bgBufferOld = View(0, 0)
    /\ <<DISPLAY_PW - 1, DISPLAY_PH - 1>> \in DOMAIN frameProbes
    /\ frameProbes[<<DISPLAY_PW - 1, DISPLAY_PH - 1>>].view = View(-SCROLL_TW, 0)

Abs(n) == IF n < 0 THEN -n ELSE n
\* the player's offset from the camera's tile as the last updateCamera saw
\* it (in the states right after updateCamera)
OffX == playerX - camPrev.tileX
OffY == playerY - camPrev.tileY
StartedX == cam.destTileX # camPrev.destTileX
StartedY == cam.destTileY # camPrev.destTileY

\* C19 as claimed: from a stationary camera a scroll starts on an axis
\* exactly when the magnitude of the player's offset on that axis is
\* strictly greater than the margin, in both directions; the destination is
\* then the tile plus or minus SCROLL_TW (SCROLL_TH); no scroll starts while
\* the magnitude is at most the margin
C19_TriggerBeyondMargin ==
    (pcCam = "drawBackground" /\ Stationary(camPrev)) =>
        /\ StartedX <=> Abs(OffX) > HorizEdge
        /\ StartedY <=> Abs(OffY) > VertEdge
        /\ (StartedX /\ OffX > 0) => cam.destTileX = camPrev.tileX + SCROLL_TW
        /\ (StartedX /\ OffX < 0) => cam.destTileX = camPrev.tileX - SCROLL_TW
        /\ (StartedY /\ OffY > 0) => cam.destTileY = camPrev.tileY + SCROLL_TH
        /\ (StartedY /\ OffY < 0) => cam.destTileY = camPrev.tileY - SCROLL_TH
        /\ (Abs(OffX) <= HorizEdge /\ Abs(OffY) <= VertEdge) => Stationary(cam)

\* C19, amended: from a stationary camera a horizontal scroll starts exactly
\* when the offset is below -margin or at least +margin (the margin itself
\* triggers in the positive direction), a vertical scroll exactly when no
\* horizontal scroll starts and the vertical offset is below -margin or at
\* least +margin; the destination is the tile plus or minus SCROLL_TW
\* (SCROLL_TH); no scroll starts while -margin <= offset < margin on both
\* axes
C19_TriggerAtMarginAmended ==
    (pcCam = "drawBackground" /\ Stationary(camPrev)) =>
        /\ StartedX <=> (OffX < -HorizEdge \/ OffX >= HorizEdge)
        /\ StartedY <=> (~StartedX /\ (OffY < -VertEdge \/ OffY >= VertEdge))
        /\ (StartedX /\ OffX > 0) => cam.destTileX = camPrev.tileX + SCROLL_TW
        /\ (StartedX /\ OffX < 0) => cam.destTileX = camPrev.tileX - SCROLL_TW
        /\ (StartedY /\ OffY > 0) => cam.destTileY = camPrev.tileY + SCROLL_TH
        /\ (StartedY /\ OffY < 0) => cam.destTileY = camPrev.tileY - SCROLL_TH
        /\ (OffX >= -HorizEdge /\ OffX < HorizEdge
              /\ OffY >= -VertEdge /\ OffY < VertEdge) => Stationary(cam)
        /\ (StartedX \/ StartedY) <=> ~Stationary(cam)

\* the player one tile inside the margin on the west and on the margin on
\* the south: the vertical scroll starts
C19_Witness ==
    /\ pcCam = "drawBackground"
    /\ Stationary(camPrev)
    /\ OffX = -HorizEdge
    /\ OffY = VertEdge
    /\ ~StartedX
    /\ StartedY
    /\ cam.destTileY = camPrev.tileY + SCROLL_TH

\* C20: every scroll completes: the camera is stationary again at the
\* latest in the 59th updateCamera of the scroll, on its destination tile
\* with pixel offset 0 and velocity 0; until then the velocity and the pixel
\* offset of the scrolling axis point toward the destination (the velocity
\* never reverses), whatever the player does meanwhile
C20_ScrollCompletes ==
    /\ camAge < 59
    /\ cam.destTileX # cam.tileX =>
          /\ cam.velocityX.mag # FZero /\ cam.pixelX.mag # FZero
          /\ cam.velocityX.neg = (cam.destTileX < cam.tileX)
          /\ cam.pixelX.neg = (cam.destTileX < cam.tileX)
          /\ cam.accelX.neg = (cam.destTileX < cam.tileX)
    /\ cam.destTileY # cam.tileY =>
          /\ cam.velocityY.mag # FZero /\ cam.pixelY.mag # FZero
          /\ cam.velocityY.neg = (cam.destTileY < cam.tileY)
          /\ cam.pixelY.neg = (cam.destTileY < cam.tileY)
          /\ cam.accelY.neg = (cam.destTileY < cam.tileY)
    /\ (~Stationary(camPrev) /\ Stationary(cam)) =>
          /\ cam.tileX = camPrev.destTileX
          /\ cam.tileY = camPrev.destTileY
          /\ cam.pixelX = SZero /\ cam.pixelY = SZero
          /\ cam.velocityX = SZero /\ cam.velocityY = SZero

\* the 59th updateCamera of a scroll to the west, during which the player
\* walked back east
C20_Witness ==
    /\ pcCam = "drawBackground"
    /\ ~Stationary(camPrev)
    /\ camPrev.destTileX = -SCROLL_TW
    /\ Stationary(cam)
    /\ cam.tileX = -SCROLL_TW
    /\ playerX > -HorizEdge
    /\ playerY # 0

---------------------------------------------------------------------------
(* The frame loop: properties, checked under SpecFrame *)

\* processInput of the current iteration has run and oldInput still is the
\* snapshot of the previous frame
InputProcessed == Len(phaseLog) >= 2 /\ Len(phaseLog) < Len(FrameOrder)

\* C17: the spawn key is edge-triggered: processInput spawns a ripple in a
\* frame if and only if key_r is down in that frame's snapshot and was up in
\* the previous frame's; while the key is held down for any number of
\* consecutive frames it has spawned exactly one ripple
C17_SpawnKeyEdgeTriggered ==
    /\ InputProcessed =>
          (spawnedNow <=> (newInput.key_r = 1 /\ oldInput.key_r = 0))
    /\ (heldFrames >= 1 /\ Len(phaseLog) >= 2) => heldSpawns = 1
    /\ (heldFrames > 1 /\ Len(phaseLog) < 2) => heldSpawns = 1
    /\ (heldFrames = 1 /\ Len(phaseLog) < 2) => heldSpawns = 0
    /\ heldFrames = 0 => heldSpawns = 0
    /\ spawnCount <= loopCount

\* the key pressed, released, and then held for three frames: the second
\* ripple was spawned in the first of the three
C17_Witness ==
    /\ pcFrame = "blitDisplay"
    /\ heldFrames = 3
    /\ heldSpawns = 1
    /\ spawnCount = 2
    /\ newInput.key_r = 1
    /\ oldInput.key_r = 1
    /\ ~spawnedNow

PresentedThisFrame == \E k \in 1..Len(phaseLog) : phaseLog[k] = "blitDisplay"

\* C18: in every iteration of the loop the phases run in the order getInput,
\* processInput, updatePlayer, updateCamera, drawBackground, animateRipple,
\* drawPlayer, blitDisplay; blitDisplay presents once per iteration, after
\* the background, the ripples and the player of that frame were drawn, and
\* nothing is drawn after it in that iteration
C18_FixedPhaseOrder ==
    /\ Len(phaseLog) <= Len(FrameOrder)
    /\ phaseLog = SubSeq(FrameOrder, 1, Len(phaseLog))
    /\ (loopCount > 0 /\ Len(phaseLog) < Len(FrameOrder)) =>
          pcFrame = FrameOrder[Len(phaseLog) + 1]
    /\ presentCount = IF loopCount = 0 \/ PresentedThisFrame
                      THEN loopCount ELSE loopCount - 1
    /\ presentCount > 0 => presented = <<"background", "ripples", "player">>
    /\ PresentedThisFrame => presented = displayLayers

\* the loop left by key_q in its third iteration, a ripple alive: the third
\* frame was presented as well
C18_Witness ==
    /\ pcFrame = "exit"
    /\ running = 0
    /\ loopCount = 3
    /\ presentCount = 3
    /\ phaseLog = FrameOrder
    /\ spawnCount = 1
    /\ presented = <<"background", "ripples", "player">>

---------------------------------------------------------------------------
(* The player: properties, checked under SpecPlayer *)

\* C23: at every frame boundary the player's tile is one of the generated
\* tiles: from (0, 0) no sequence of keys moves the player onto a coordinate
\* that is not in tileArray
C23_PlayerOnGeneratedTile == Generated(player.x, player.y)

Moving(pixel, velocity) == pixel # SZero \/ velocity # SZero

\* C25: at every frame boundary the player's destination differs from its
\* tile by at most one tile on each axis, at most one axis has a non-zero
\* pixel offset or velocity, and on an axis whose destination equals the
\* position the pixel offset and the velocity are zero
C25_PlayerOneAxisAtATime ==
    /\ player.destX - player.x \in {-1, 0, 1}
    /\ player.destY - player.y \in {-1, 0, 1}
    /\ ~(Moving(player.pixelX, player.velocityX)
           /\ Moving(player.pixelY, player.velocityY))
    /\ player.destX = player.x => ~Moving(player.pixelX, player.velocityX)
    /\ player.destY = player.y => ~Moving(player.pixelY, player.velocityY)

\* right and down read in one call: the player is under way to the right,
\* the move down waits with its destination set
C25_Witness ==
    /\ pKeys.key_right = 1
    /\ pKeys.key_down = 1
    /\ player.destX = player.x + 1
    /\ player.destY = player.y + 1
    /\ SLess(SInt(TILESIZE \div 2), player.pixelX)
    /\ player.pixelY = SZero
    /\ player.velocityY = SZero


---------------------------------------------------------------------------
(* The drawing of the ripples: properties, checked under SpecRippleDraw *)

\* C28: in every call of animateRipple that draws an active ripple, every
\* pixel the rings of radius + k and radius - k (k in 0..3) write has a
\* non-negative column and row and an offset below width * height of the
\* ripple's bitmap: the two assertions never fail.
C28_RingPixelsInsideBitmap ==
    \A p \in ringPixels :
        LET bitmap == rippleArray[p.slot].bitmap
        IN  /\ p.col >= 0
            /\ p.row >= 0
            /\ p.index >= 0
            /\ p.index < bitmap.width * bitmap.height

\* the widest ring of the last drawn frame (radius 47 + 3) reaches the last
\* row of the bitmap just before the quarter turn, and the column one past
\* the last one at angle 0
C28_Witness ==
    /\ \E p \in ringPixels :
          /\ p.radius = RIPPLE_SIZE \div 2
          /\ p.i = 157
          /\ p.row = RIPPLE_SIZE - 1
    /\ \E p \in ringPixels :
          /\ p.i = 0
          /\ p.col = RIPPLE_SIZE

\* C24: every frame-buffer pixel written while a ripple's bitmap is
\* composited has an offset inside the frame buffer and lies in the column
\* and the row its screen position denotes.
C24_CompositeInsideFrame ==
    \A a \in composited :
        a.written =>
            /\ a.offset >= 0
            /\ a.offset < DISPLAY_PW * DISPLAY_PH
            /\ a.col >= 0
            /\ a.col < DISPLAY_PW
            /\ a.row >= 0
            /\ a.row < DISPLAY_PH

====
